---- MODULE Spec2Model ----
(***************************************************************************)
(* A model of the two MCP adapters of the repository:                      *)
(*   - the Discord adapter (tools/base.py, tools/messages.py,              *)
(*     tools/servers.py, tools/channels.py, tools/users.py, tools/auth.py, *)
(*     server.py), and                                                     *)
(*   - the Google Photos adapter (server.py, utils.py, tools/*.py).        *)
(*                                                                         *)
(* A tool call runs on a task.  A Discord handler is a coroutine: it runs  *)
(* until its next `await self.auth.make_request(...)`, so one action of    *)
(* the model is one segment of a handler between two awaits.  The Google   *)
(* Photos tool functions never await (request.execute() is a blocking      *)
(* call), so one action is one whole tool call.                            *)
(*                                                                         *)
(* Strings whose characters matter (emojis) are sequences of one-character *)
(* strings.                                                                *)
(***************************************************************************)
EXTENDS Integers, Sequences, FiniteSets, TLC

\* ------------------------------------------------------------------ bounds
NumTasks == 2        \* tasks that may run tool calls
MaxEmojis == 2       \* longest emoji list given to add_multiple_reactions
MaxEmojiLen == 7     \* longest emoji string given to normalize_emoji alone

Tasks == 1..NumTasks

\* ------------------------------------------------------- program constants
LIST_MEMBERS_MAX == 1000      \* servers.py: min(limit, 1000)
READ_MESSAGES_MAX == 100      \* messages.py: min(limit, 100)
LIST_MEMBERS_DEFAULT == 100   \* servers.py: arguments.get("limit", 100)
READ_MESSAGES_DEFAULT == 50   \* messages.py: arguments.get("limit", 50)
PICKED_ITEMS_MAX == 100       \* list_picked_media_items.py: min(pageSize, 100)
LIST_ALBUMS_MAX == 50         \* server.py: min(page_size, 50)
ALBUM_PHOTOS_MAX == 100       \* server.py: min(page_size, 100)
SEARCH_MAX == 100             \* server.py: search_photos, min(page_size, 100)
LIST_ALBUMS_DEFAULT == 20     \* server.py: list_albums(page_size: int = 20)
PHOTOS_PAGE_DEFAULT == 25     \* server.py: page_size: int = 25
PICKED_ITEMS_DEFAULT == 50    \* list_picked_media_items.py: pageSize: int = 50
PREVIEW_LEN == 50             \* messages.py: content[:50], len(content) > 50
TEXT_CHANNEL_TYPE == 0        \* channels.py: "type": 0

\* Python's None, for an optional argument that was not given
None == "None"

\* a ContextVar without a value in a context: get() raises LookupError
Unset == "unset"

Max(a, b) == IF a >= b THEN a ELSE b
Min(a, b) == IF a <= b THEN a ELSE b

\* ------------------------------------------------------------------ emojis
Digits == {"0", "1", "2"}

\* str.isdigit(): non-empty and every character a digit
isdigit(s) == Len(s) > 0 /\ \A i \in 1..Len(s) : s[i] \in Digits

\* the first index q > p with s[q] = c, or Len(s)+1 when there is none
IndexAfter(s, p, c) ==
    CHOOSE q \in (p+1)..(Len(s)+1) :
        /\ (q = Len(s) + 1 \/ s[q] = c)
        /\ \A k \in (p+1)..(q-1) : s[k] /= c

\* the end of the longest run of digits that starts at p (p-1 when s[p] is no digit)
DigitsEnd(s, p) ==
    CHOOSE q \in (p-1)..Len(s) :
        /\ \A k \in p..q : s[k] \in Digits
        /\ (q = Len(s) \/ s[q+1] \notin Digits)

\* re.match(r'<a?:([^:]+):(\d+)>', emoji): the groups (name, id), or <<>>
\* when the pattern does not match at the start of the string
EmojiMatch(s) ==
    LET c1 == IF Len(s) >= 2 /\ s[1] = "<" /\ s[2] = ":" THEN 2
              ELSE IF Len(s) >= 3 /\ s[1] = "<" /\ s[2] = "a" /\ s[3] = ":" THEN 3
              ELSE 0
        c2 == IndexAfter(s, c1, ":")
        d  == DigitsEnd(s, c2 + 1)
    IN  IF c1 = 0 \/ c2 > Len(s) \/ c2 = c1 + 1 THEN <<>>
        ELSE IF d < c2 + 1 \/ d = Len(s) \/ s[d+1] /= ">" THEN <<>>
        ELSE <<SubSeq(s, c1 + 1, c2 - 1), SubSeq(s, c2 + 1, d)>>

\* a variant that only strips the angle brackets, which C13 tells from the
\* code
normalize_emoji_strip(emoji) ==
    IF Len(emoji) > 1 /\ emoji[1] = "<" /\ emoji[Len(emoji)] = ">"
    THEN SubSeq(emoji, 2, Len(emoji) - 1)
    ELSE emoji

\* normalize_emoji: the groups joined by ':' when the emoji starts with '<',
\* ends with '>' and the pattern matches; the emoji as it is otherwise
normalize_emoji(emoji) ==
    IF Len(emoji) > 0 /\ emoji[1] = "<" /\ emoji[Len(emoji)] = ">"
       /\ EmojiMatch(emoji) /= <<>>
    THEN EmojiMatch(emoji)[1] \o <<":">> \o EmojiMatch(emoji)[2]
    ELSE emoji

\* the index of the last ':' of s, 0 when there is none
LastColon(s) ==
    IF \E i \in 1..Len(s) : s[i] = ":"
    THEN CHOOSE i \in 1..Len(s) : s[i] = ":" /\ \A k \in (i+1)..Len(s) : s[k] /= ":"
    ELSE 0

\* add_reaction: parts = normalized_emoji.rsplit(":", 1); parts[1]
IdPart(normalized) == SubSeq(normalized, LastColon(normalized) + 1, Len(normalized))

\* a variant that takes every emoji with a colon for a custom one, which C28
\* tells from the code
IsCustomEmoji_any_colon(normalized) == LastColon(normalized) > 0

\* add_reaction: ":" in normalized_emoji and parts[1].isdigit()
IsCustomEmoji(normalized) == LastColon(normalized) > 0 /\ isdigit(IdPart(normalized))

\* urllib.parse.quote(c, safe='') of one character
QuoteChar(c) ==
    CASE c = ":" -> "%3A"
      [] c = "<" -> "%3C"
      [] c = ">" -> "%3E"
      [] c = "U" -> "%F0%9F%98%80"
      [] OTHER   -> c

quote(s) == [i \in 1..Len(s) |-> QuoteChar(s[i])]

\* the emojis a caller may pass
EmojiUnicode == <<"U">>                                \* a Unicode emoji
EmojiWrapped == <<"<", ":", "n", ":", "1", ">">>       \* <:n:1>
EmojiAnimated == <<"<", "a", ":", "n", ":", "2", ">">> \* <a:n:2>
EmojiPlain == <<"n", ":", "1">>                        \* n:1, already normalized
EmojiColonName == <<":", "n">>                         \* a colon, no id behind it

EmojiInputs == {EmojiUnicode, EmojiWrapped, EmojiAnimated, EmojiPlain, EmojiColonName}

\* every list of at most n emojis
EmojiLists(n) == UNION {[1..k -> EmojiInputs] : k \in 0..n}


\* -------------------------------------------------- Discord upstream client
\* An upstream answer: the transport outcome, the HTTP status, whether the
\* Content-Type holds application/json, and what the body carries.
Response(net, status, is_json, guild_id, emoji_ids, message) ==
    [net |-> net, status |-> status, is_json |-> is_json,
     guild_id |-> guild_id, emoji_ids |-> emoji_ids, message |-> message]

HttpError(status, message) == Response("ok", status, TRUE, "", {}, message)
ClientError == Response("ClientError", 0, FALSE, "", {}, "connection refused")

\* the JSON body of a request: the keys it holds and their values (a key that
\* is not held keeps the value of NoBody)
Body(keys, content, name, type, topic, parent_id) ==
    [keys |-> keys, content |-> content, name |-> name, type |-> type,
     topic |-> topic, parent_id |-> parent_id]

\* json_data=None
NoBody == Body({}, <<>>, "", 0, None, None)

\* an upstream request as make_request receives it
Request(method, route, target, emoji, limit, expect_empty) ==
    [method |-> method, route |-> route, target |-> target, emoji |-> emoji,
     limit |-> limit, expect_empty |-> expect_empty, body |-> NoBody]

\* what make_request gives its caller: data (None, the parsed JSON, or
\* {"raw_content": raw_text}), or a raised RuntimeError whose str() is `text`
Returned(kind, resp) ==
    [ok |-> TRUE, kind |-> kind, guild_id |-> resp.guild_id,
     emoji_ids |-> resp.emoji_ids,
     raw_content |-> IF kind = "raw" THEN resp.message ELSE "", text |-> <<>>]
RaisedRuntimeError(text) ==
    [ok |-> FALSE, kind |-> "RuntimeError", guild_id |-> "", emoji_ids |-> {},
     raw_content |-> "", text |-> text]

\* error_body: the parsed JSON when the Content-Type is JSON (formatted as
\* the dict it is), the raw text otherwise
error_body(resp) ==
    IF resp.is_json THEN <<"{'error': {'message': '", resp.message, "'}}">>
    ELSE <<resp.message>>

\* f"Discord API Error ({response.status}): {error_body}"
DiscordApiError(resp) ==
    <<"Discord API Error (", ToString(resp.status), "): ">> \o error_body(resp)

\* the return of a response whose status is below 400
SuccessReturn(req, resp) ==
    IF req.expect_empty /\ resp.status = 204 THEN Returned("none", resp)
    ELSE IF resp.is_json THEN Returned("json", resp)
    ELSE Returned("raw", [resp EXCEPT !.guild_id = "", !.emoji_ids = {}])

\* a variant that looks at expect_empty_response before the status, which
\* C14 tells from the code
make_request_empty_first(req, resp) ==
    IF resp.net = "ClientError"
    THEN RaisedRuntimeError(<<"Network error during API call to ", req.method, ": ",
                              resp.message>>)
    ELSE IF resp.net /= "ok"
    THEN RaisedRuntimeError(<<"Unexpected error during API call to ", req.method, ": ",
                              resp.message>>)
    ELSE IF req.expect_empty THEN SuccessReturn(req, resp)
    ELSE IF resp.status >= 400
    THEN RaisedRuntimeError(<<"Unexpected error during API call to ", req.method, ": ">>
                            \o DiscordApiError(resp))
    ELSE SuccessReturn(req, resp)

\* a variant that returns None whenever an empty response is expected, which
\* C17 tells from the code
make_request_none_when_expected(req, resp) ==
    IF resp.net = "ClientError"
    THEN RaisedRuntimeError(<<"Network error during API call to ", req.method, ": ",
                              resp.message>>)
    ELSE IF resp.net /= "ok"
    THEN RaisedRuntimeError(<<"Unexpected error during API call to ", req.method, ": ",
                              resp.message>>)
    ELSE IF resp.status >= 400
    THEN RaisedRuntimeError(<<"Unexpected error during API call to ", req.method, ": ">>
                            \o DiscordApiError(resp))
    ELSE IF req.expect_empty THEN Returned("none", resp)
    ELSE SuccessReturn(req, resp)

\* a variant that does not look at the status, which C23 tells from the code
make_request_status_unchecked(req, resp) ==
    IF resp.net = "ClientError"
    THEN RaisedRuntimeError(<<"Network error during API call to ", req.method, ": ",
                              resp.message>>)
    ELSE IF resp.net /= "ok"
    THEN RaisedRuntimeError(<<"Unexpected error during API call to ", req.method, ": ",
                              resp.message>>)
    ELSE SuccessReturn(req, resp)

\* DiscordAuth.make_request.  aiohttp.ClientError becomes "Network error ...";
\* any other exception becomes "Unexpected error ...": a timeout
\* (asyncio.TimeoutError is no ClientError) and also the RuntimeError raised
\* for a status >= 400, which is raised inside the try block and so is caught
\* by `except Exception` and wrapped a second time.
make_request(req, resp) ==
    IF resp.net = "ClientError"
    THEN RaisedRuntimeError(<<"Network error during API call to ", req.method, ": ",
                              resp.message>>)
    ELSE IF resp.net /= "ok"
    THEN RaisedRuntimeError(<<"Unexpected error during API call to ", req.method, ": ",
                              resp.message>>)
    ELSE IF resp.status >= 400
    THEN RaisedRuntimeError(<<"Unexpected error during API call to ", req.method, ": ">>
                            \o DiscordApiError(resp))
    ELSE SuccessReturn(req, resp)

\* the answers the upstream may give to each kind of request
ChannelResponses ==
    { Response("ok", 200, TRUE, "g1", {}, ""),       \* a guild channel
      Response("ok", 200, TRUE, "", {}, ""),         \* a DM channel: no guild_id
      Response("ok", 200, FALSE, "", {}, "<html>"),  \* not JSON
      HttpError(403, "Missing Access"),
      ClientError }

GuildEmojiResponses ==
    { Response("ok", 200, TRUE, "", {<<"1">>}, ""),
      Response("ok", 200, TRUE, "", {}, ""),
      Response("ok", 200, FALSE, "", {}, "<html>"),
      HttpError(403, "Missing Access"),
      ClientError }

ReactionResponses ==
    { Response("ok", 204, FALSE, "", {}, ""),
      HttpError(404, "Unknown Message"),
      ClientError }

\* the answers to DELETE .../reactions/{emoji}/@me
DeleteResponses ==
    { Response("ok", 204, FALSE, "", {}, ""),
      Response("ok", 200, TRUE, "", {}, ""),
      Response("ok", 200, FALSE, "", {}, "<html>"),
      HttpError(404, "Unknown Message"),
      Response("ok", 502, FALSE, "", {}, "Bad Gateway"),
      ClientError }

DataResponses ==
    { Response("ok", 200, TRUE, "", {}, ""),
      Response("ok", 200, FALSE, "", {}, "<html>"),
      Response("ok", 204, FALSE, "", {}, ""),
      HttpError(403, "Missing Access"),
      Response("ok", 502, FALSE, "", {}, "Bad Gateway"),
      Response("TimeoutError", 0, FALSE, "", {}, "timeout"),
      ClientError }

\* ------------------------------------------------------- Discord tool groups
\* server.py: tool_registry.register_tool(...), in this order
Groups == <<"server", "messages", "channels", "users">>

\* a variant whose last group answers no name, which C30 tells from the code
GroupTools_users_unclaimed(g) ==
    CASE g = "server"   -> {"get_server_info", "list_members"}
      [] g = "messages" -> {"send_message", "read_messages", "add_reaction",
                            "add_multiple_reactions", "remove_reaction"}
      [] g = "channels" -> {"create_text_channel"}
      [] g = "users"    -> {}

\* the names each group's handle_tool_call answers; any other name raises
\* NotImplementedError
GroupTools(g) ==
    CASE g = "server"   -> {"get_server_info", "list_members"}
      [] g = "messages" -> {"send_message", "read_messages", "add_reaction",
                            "add_multiple_reactions", "remove_reaction"}
      [] g = "channels" -> {"create_text_channel"}
      [] g = "users"    -> {"get_user_info"}

DiscordTools == UNION {GroupTools(Groups[i]) : i \in 1..Len(Groups)}

\* a variant that goes on to the next group after any exception, which C8
\* tells from the code
RegistryContinuesAlways(exc) == TRUE

\* DiscordToolRegistry.handle_tool_call: `except NotImplementedError: continue`
RegistryContinues(exc) == exc = "NotImplementedError"

\* ------------------------------------------------------------ Discord tools
\* a variant without the lower clamp, which C9 tells from the code
list_members_limit_upper_only(limit) == Min(limit, LIST_MEMBERS_MAX)

\* ServerTool.list_members: clamped_limit = max(1, min(limit, 1000))
list_members_limit(limit) == Max(1, Min(limit, LIST_MEMBERS_MAX))

\* MessageTool.read_messages: clamped_limit = max(1, min(limit, 100))
read_messages_limit(limit) == Max(1, Min(limit, READ_MESSAGES_MAX))

\* send_message: content[:50] + ("..." if len(content) > 50 else "")
Ellipsis == <<".", ".", ".">>

\* a variant that also marks a content of exactly 50 characters, which C12
\* tells from the code
content_preview_from_50(content) ==
    SubSeq(content, 1, Min(Len(content), PREVIEW_LEN))
        \o (IF Len(content) >= PREVIEW_LEN THEN Ellipsis ELSE <<>>)

content_preview(content) ==
    SubSeq(content, 1, Min(Len(content), PREVIEW_LEN))
        \o (IF Len(content) > PREVIEW_LEN THEN Ellipsis ELSE <<>>)

\* send_message: message_data = {"content": content}
send_message_body(c) == Body({"content"}, c.content, "", 0, None, None)

\* `if topic:`, `if category_id:`
Truthy(v) == v /= None /\ v /= ""

\* a variant that always sends the optional keys, which C18 tells from the
\* code
create_text_channel_body_all_keys(c) ==
    Body({"name", "type", "topic", "parent_id"}, <<>>, c.name, TEXT_CHANNEL_TYPE,
         c.topic, c.category_id)

\* create_text_channel: channel_data = {"name": name, "type": 0}, then topic
\* and parent_id when they are truthy
create_text_channel_body(c) ==
    Body({"name", "type"} \cup (IF Truthy(c.topic) THEN {"topic"} ELSE {})
                          \cup (IF Truthy(c.category_id) THEN {"parent_id"} ELSE {}),
         <<>>, c.name, TEXT_CHANNEL_TYPE,
         IF Truthy(c.topic) THEN c.topic ELSE None,
         IF Truthy(c.category_id) THEN c.category_id ELSE None)

\* the single request of the tools that issue exactly one
SingleRequest(c) ==
    CASE c.tool = "get_server_info" ->
            Request("GET", "guild", c.server_id, <<>>, 0, FALSE)
      [] c.tool = "list_members" ->
            Request("GET", "members", c.server_id, <<>>,
                    list_members_limit(IF c.has_limit THEN c.limit ELSE LIST_MEMBERS_DEFAULT), FALSE)
      [] c.tool = "create_text_channel" ->
            [Request("POST", "guild_channels", c.server_id, <<>>, 0, FALSE)
                EXCEPT !.body = create_text_channel_body(c)]
      [] c.tool = "send_message" ->
            [Request("POST", "messages", c.channel_id, <<>>, 0, FALSE)
                EXCEPT !.body = send_message_body(c)]
      [] c.tool = "read_messages" ->
            Request("GET", "messages", c.channel_id, <<>>,
                    read_messages_limit(IF c.has_limit THEN c.limit ELSE READ_MESSAGES_DEFAULT), FALSE)
      [] c.tool = "get_user_info" ->
            Request("GET", "user", c.user_id, <<>>, 0, FALSE)
      [] c.tool = "remove_reaction" ->
            Request("DELETE", "reaction", c.channel_id, quote(normalize_emoji(c.emoji)), 0, TRUE)

\* the tools whose handler iterates over the returned data (for msg in ...)
ListTools == {"list_members", "read_messages"}

\* add_reaction: the locals computed before the first await
NewFrame(emoji) ==
    LET n == normalize_emoji(emoji)
    IN  [emoji |-> emoji, normalized |-> n, is_custom |-> IsCustomEmoji(n),
         custom_id |-> IF IsCustomEmoji(n) THEN IdPart(n) ELSE <<>>, guild_id |-> ""]

NoFrame == [emoji |-> <<>>, normalized |-> <<>>, is_custom |-> FALSE,
            custom_id |-> <<>>, guild_id |-> ""]

ChannelRequest(c) == Request("GET", "channel", c.channel_id, <<>>, 0, FALSE)
GuildEmojisRequest(guild_id) == Request("GET", "guild_emojis", guild_id, <<>>, 0, FALSE)
PutRequest(c, f) == Request("PUT", "reaction", c.channel_id, quote(f.normalized), 0, TRUE)

\* a variant without the membership test, which C1 tells from the code
EmojiInGuildUnchecked(custom_id, emoji_ids) == TRUE

\* add_reaction: `if custom_id not in emoji_ids: raise`
EmojiInGuild(custom_id, emoji_ids) == custom_id \in emoji_ids

\* a variant that echoes the normalized emoji, which C27 tells from the code
ReactionFailure_normalized(c, f, text) ==
    [success |-> FALSE, error |-> text,
     emoji |-> f.normalized, message_id |-> c.message_id, channel_id |-> c.channel_id]

\* add_reaction: the two dicts it returns
ReactionSuccess(c, f) ==
    [success |-> TRUE, message |-> <<"Successfully added reaction ", f.emoji>>,
     emoji |-> f.emoji, message_id |-> c.message_id, channel_id |-> c.channel_id]
ReactionFailure(c, f, text) ==
    [success |-> FALSE, error |-> text,
     emoji |-> f.emoji, message_id |-> c.message_id, channel_id |-> c.channel_id]

\* a variant whose success means "some reaction was added", which C3 tells
\* from the code
AggregateResultAnySuccess(c, res, errs) ==
    [success |-> Len(res) > 0, message_id |-> c.message_id, channel_id |-> c.channel_id,
     successful_reactions |-> res, failed_reactions |-> errs,
     summary |-> <<"Added ", ToString(Len(res)), " reactions successfully, ",
                   ToString(Len(errs)), " failed">>]

\* add_multiple_reactions: the dict it returns
AggregateResult(c, res, errs) ==
    [success |-> Len(errs) = 0, message_id |-> c.message_id, channel_id |-> c.channel_id,
     successful_reactions |-> res, failed_reactions |-> errs,
     summary |-> <<"Added ", ToString(Len(res)), " reactions successfully, ",
                   ToString(Len(errs)), " failed">>]


\* ------------------------------------------------------------------- state
VARIABLES
    pc,        \* per task: "idle", "running" (inside a tool call), "done"
    call,      \* per task: the tool call being served (name and arguments)
    invoked,   \* per task: the groups whose handle_tool_call the registry invoked
    stage,     \* per task: the await the handler is suspended at, or "loop"/"none"
    frame,     \* per task: the locals of the running handler
    idx,       \* per task: add_multiple_reactions: the position of `emoji` in emojis
    results,   \* per task: add_multiple_reactions: the list `results`
    errors,    \* per task: add_multiple_reactions: the list `errors`
    started,   \* per task: the emojis add_reaction was called with, in order
    returned,  \* per task: the `success` of each add_reaction that returned, in order
    events,    \* per task: the upstream requests issued and the answers received
    inflight,  \* per task: the upstream requests issued and not yet answered
    outcome,   \* per task: how the call ended: a return or a raised exception
    result,    \* per task: the value the call returned
    auth,      \* the Discord client the server module constructed at import
    auth_token_context, \* Google Photos: the ContextVar, its value in each context
    tools      \* DiscordToolRegistry.tools: the registered groups, in order

vars == <<pc, call, invoked, stage, frame, idx, results, errors, started, returned,
          events, inflight, outcome, result, auth,
          auth_token_context, tools>>

\* DiscordToolRegistry.handle_tool_call, `for tool in self.tools.values()`:
\* the first group at index >= k that answers the name, 0 when none does
Owner(name, k) ==
    IF \E i \in k..Len(tools) : name \in GroupTools(tools[i])
    THEN CHOOSE i \in k..Len(tools) :
            /\ name \in GroupTools(tools[i])
            /\ \A j \in k..(i-1) : name \notin GroupTools(tools[j])
    ELSE 0

\* a variant in which two groups define the same name, which C26 tells from
\* the code
get_tool_definitions_shared_name(g) ==
    CASE g = "server"   -> <<"get_server_info", "list_members">>
      [] g = "messages" -> <<"send_message", "read_messages", "add_reaction",
                             "add_multiple_reactions", "remove_reaction">>
      [] g = "channels" -> <<"create_text_channel", "send_message">>
      [] g = "users"    -> <<"get_user_info">>

\* get_tool_definitions of each group: the names of its definitions, in order
get_tool_definitions(g) ==
    CASE g = "server"   -> <<"get_server_info", "list_members">>
      [] g = "messages" -> <<"send_message", "read_messages", "add_reaction",
                             "add_multiple_reactions", "remove_reaction">>
      [] g = "channels" -> <<"create_text_channel">>
      [] g = "users"    -> <<"get_user_info">>

\* DiscordToolRegistry.get_all_tool_definitions: definitions.extend(...) over
\* the registered groups
get_all_tool_definitions ==
    LET F[k \in 0..Len(tools)] ==
            IF k = 0 THEN <<>> ELSE F[k - 1] \o get_tool_definitions(tools[k])
    IN  F[Len(tools)]

\* a call: the adapter, the tool name and the arguments (the fields an adapter
\* does not use keep their value of NoCall)
NoCall == [adapter |-> "none", tool |-> "", channel_id |-> "", message_id |-> "",
           server_id |-> "", user_id |-> "", emoji |-> <<>>, emojis |-> <<>>,
           has_limit |-> FALSE, limit |-> 0,
           content |-> <<>>, name |-> "", topic |-> None, category_id |-> None,
           keys |-> {}, page_size |-> 0, page_token |-> "", token_context |-> "",
           x_auth_token |-> None, env_missing |-> {}]

\* the elements of a sequence
Range(s) == {s[i] : i \in 1..Len(s)}

\* the handle_tool_call of the groups: the arguments[...] subscripts of each
\* tool, in the order they are evaluated (arguments.get(...) is no subscript)
RequiredArguments(tool) ==
    CASE tool \in {"get_server_info", "list_members"} -> <<"server_id">>
      [] tool = "send_message" -> <<"channel_id", "content">>
      [] tool = "read_messages" -> <<"channel_id">>
      [] tool \in {"add_reaction", "remove_reaction"} -> <<"channel_id", "message_id", "emoji">>
      [] tool = "add_multiple_reactions" -> <<"channel_id", "message_id", "emojis">>
      [] tool = "create_text_channel" -> <<"server_id", "name">>
      [] tool = "get_user_info" -> <<"user_id">>
      [] OTHER -> <<>>

\* the first subscript that finds no key in the argument map: 0 when every
\* one finds its key
MissingArgument(c) ==
    LET req == RequiredArguments(c.tool)
    IN  IF Range(req) \subseteq c.keys THEN 0
        ELSE CHOOSE i \in 1..Len(req) :
                req[i] \notin c.keys /\ \A j \in 1..(i - 1) : req[j] \in c.keys

\* a call whose argument map holds every required argument, with ids as the
\* upstream issues them
DiscordCall(tool, emoji, emojis, has_limit, limit) ==
    [NoCall EXCEPT !.adapter = "discord", !.tool = tool, !.channel_id = "c1",
                   !.message_id = "m1", !.server_id = "s1", !.user_id = "u1",
                   !.emoji = emoji, !.emojis = emojis,
                   !.has_limit = has_limit, !.limit = limit,
                   !.keys = Range(RequiredArguments(tool))
                            \cup (IF has_limit THEN {"limit"} ELSE {})]

NoOutcome == [kind |-> "none", exc |-> "", text |-> <<>>]
ReturnOutcome == [kind |-> "return", exc |-> "", text |-> <<>>]
RaiseOutcome(exc, text) == [kind |-> "raise", exc |-> exc, text |-> text]
NoResult == [kind |-> "none"]

\* the limit arguments a caller may pass
LimitInputs == {-5, 0, 1, 2, 50, 99, 100, 101, 999, 1000, 1001, 5000}

\* a name no group answers
UnknownTools == {"does_not_exist"}

\* the lengths of the contents a caller may send
ContentLengths == {0, 1, 49, 50, 51, 52, 60}

\* a content of n characters, all different
Content(n) == [i \in 1..n |-> ToString(i)]

\* the topic and the category_id a caller may give: none, the empty string, one
Topics == {None, "", "rules"}
Categories == {None, "", "cat1"}

\* an id that is no snowflake (a snowflake is a string of digits)
MalformedId == "12ab"

\* calls whose argument map lacks one required argument, or all of them
IncompleteCalls ==
    { c \in {[DiscordCall(tool,
                          IF tool \in {"add_reaction", "remove_reaction"}
                          THEN EmojiUnicode ELSE <<>>,
                          IF tool = "add_multiple_reactions" THEN <<EmojiUnicode>> ELSE <<>>,
                          FALSE, 0) EXCEPT !.keys = keys] :
                tool \in {"get_server_info", "list_members", "send_message", "read_messages",
                          "add_reaction", "add_multiple_reactions", "remove_reaction",
                          "create_text_channel", "get_user_info"},
                keys \in {{}, {"server_id"}, {"channel_id"}, {"channel_id", "message_id"},
                          {"message_id", "emoji"}, {"name"}} } :
        MissingArgument(c) /= 0 }

\* calls that carry a malformed id
MalformedCalls ==
    { [DiscordCall("get_user_info", <<>>, <<>>, FALSE, 0) EXCEPT !.user_id = MalformedId],
      [DiscordCall("get_server_info", <<>>, <<>>, FALSE, 0) EXCEPT !.server_id = MalformedId],
      [DiscordCall("remove_reaction", EmojiUnicode, <<>>, FALSE, 0)
          EXCEPT !.channel_id = MalformedId] }

\* the calls a client may place on the Discord registry
DiscordCalls ==
    {DiscordCall(tool, <<>>, <<>>, FALSE, 0) :
        tool \in {"get_server_info", "get_user_info", "list_members", "read_messages"}
                 \cup UnknownTools}
    \cup {[DiscordCall("send_message", <<>>, <<>>, FALSE, 0) EXCEPT !.content = Content(n)] :
            n \in ContentLengths}
    \cup {[DiscordCall("create_text_channel", <<>>, <<>>, FALSE, 0)
              EXCEPT !.name = "general", !.topic = topic, !.category_id = cat,
                     !.keys = @ \cup (IF topic = None THEN {} ELSE {"topic"})
                                \cup (IF cat = None THEN {} ELSE {"category_id"})] :
            topic \in Topics, cat \in Categories}
    \cup {DiscordCall(tool, <<>>, <<>>, TRUE, l) :
            tool \in {"list_members", "read_messages"}, l \in LimitInputs}
    \cup {DiscordCall(tool, e, <<>>, FALSE, 0) :
            tool \in {"add_reaction", "remove_reaction"}, e \in EmojiInputs}
    \cup {DiscordCall("add_multiple_reactions", <<>>, es, FALSE, 0) :
            es \in EmojiLists(MaxEmojis)}
    \cup IncompleteCalls
    \cup MalformedCalls

\* os.getenv("DISCORD_TOKEN"): not set, empty, set
EnvTokens == {None, "", "bot-token"}

\* DiscordAuth.__init__: `if not self.token: raise ValueError(...)`
DiscordAuth_init(token) ==
    IF token = None \/ token = ""
    THEN [constructed |-> FALSE, token |-> token, exc |-> "ValueError"]
    ELSE [constructed |-> TRUE, token |-> token, exc |-> ""]

\* DiscordAuth.get_headers
get_headers == [Authorization |-> <<"Bot ", auth.token>>]

Init ==
    /\ auth \in {DiscordAuth_init(token) : token \in EnvTokens}
    /\ tools = IF auth.constructed THEN Groups ELSE <<>>
    /\ pc = [t \in Tasks |-> "idle"]
    /\ call = [t \in Tasks |-> NoCall]
    /\ invoked = [t \in Tasks |-> <<>>]
    /\ auth_token_context = [ctx \in Tasks |-> Unset]
    /\ stage = [t \in Tasks |-> "none"]
    /\ frame = [t \in Tasks |-> NoFrame]
    /\ idx = [t \in Tasks |-> 0]
    /\ results = [t \in Tasks |-> <<>>]
    /\ errors = [t \in Tasks |-> <<>>]
    /\ started = [t \in Tasks |-> <<>>]
    /\ returned = [t \in Tasks |-> <<>>]
    /\ events = [t \in Tasks |-> <<>>]
    /\ inflight = [t \in Tasks |-> <<>>]
    /\ outcome = [t \in Tasks |-> NoOutcome]
    /\ result = [t \in Tasks |-> NoResult]

ReqEvent(req) == [ev |-> "req", req |-> req]

\* the Discord client sends `req` with its headers
Sent(req) == [ev |-> "req", req |-> req, headers |-> get_headers]
RespEvent(req, ret) == [ev |-> "resp", req |-> req, ret |-> ret]

\* the Discord upstream answered `resp` to `req`, and make_request gave `ret`
Answered(req, resp, ret) == [ev |-> "resp", req |-> req, resp |-> resp, ret |-> ret]

RemoveAt(s, i) == SubSeq(s, 1, i - 1) \o SubSeq(s, i + 1, Len(s))

\* ---------------------------------------------------- the Discord registry
\* The call ends: the registry returns `value` to its caller.
ReturnOut(t, value, ev, infl) ==
    /\ pc' = [pc EXCEPT ![t] = "done"]
    /\ stage' = [stage EXCEPT ![t] = "none"]
    /\ outcome' = [outcome EXCEPT ![t] = ReturnOutcome]
    /\ result' = [result EXCEPT ![t] = value]
    /\ events' = [events EXCEPT ![t] = ev]
    /\ inflight' = [inflight EXCEPT ![t] = infl]
    /\ UNCHANGED <<call, invoked, frame, idx, results, errors, started, returned, auth, auth_token_context, tools>>

\* DiscordToolRegistry.handle_tool_call, from the group at index k on: the
\* groups that do not answer the name raise NotImplementedError and the loop
\* goes on; the first that answers runs its handler up to its first await;
\* when none is left the registry raises ValueError.  The group that answers
\* evaluates arguments[...] before it calls its tool: a key that is not there
\* raises KeyError, which the registry does not catch.
Dispatch(t, c, k, ev, infl) ==
    LET owner == Owner(c.tool, k)
        f     == IF c.tool = "add_reaction" THEN NewFrame(c.emoji) ELSE NoFrame
        req   == IF c.tool = "add_reaction"
                 THEN (IF f.is_custom THEN ChannelRequest(c) ELSE PutRequest(c, f))
                 ELSE SingleRequest(c)
    IN  IF owner = 0 \/ MissingArgument(c) /= 0
        THEN /\ invoked' = [invoked EXCEPT ![t] =
                    @ \o SubSeq(tools, k, IF owner = 0 THEN Len(tools) ELSE owner)]
             /\ pc' = [pc EXCEPT ![t] = "done"]
             /\ stage' = [stage EXCEPT ![t] = "none"]
             /\ outcome' = [outcome EXCEPT ![t] =
                    IF owner = 0
                    THEN RaiseOutcome("ValueError", <<"Unknown tool: ", c.tool>>)
                    ELSE RaiseOutcome("KeyError",
                                      <<RequiredArguments(c.tool)[MissingArgument(c)]>>)]
             /\ events' = [events EXCEPT ![t] = ev]
             /\ inflight' = [inflight EXCEPT ![t] = infl]
             /\ UNCHANGED <<frame, idx, results, errors, started, returned, result, auth, auth_token_context, tools>>
        ELSE /\ invoked' = [invoked EXCEPT ![t] = @ \o SubSeq(tools, k, owner)]
             /\ pc' = [pc EXCEPT ![t] = "running"]
             /\ outcome' = [outcome EXCEPT ![t] = NoOutcome]
             /\ frame' = [frame EXCEPT ![t] = f]
             /\ idx' = [idx EXCEPT ![t] = 0]
             /\ results' = [results EXCEPT ![t] = <<>>]
             /\ errors' = [errors EXCEPT ![t] = <<>>]
             /\ returned' = [returned EXCEPT ![t] = <<>>]
             /\ UNCHANGED <<result, auth, auth_token_context, tools>>
             /\ IF c.tool = "add_multiple_reactions"
                THEN /\ stage' = [stage EXCEPT ![t] = "loop"]
                     /\ started' = [started EXCEPT ![t] = <<>>]
                     /\ events' = [events EXCEPT ![t] = ev]
                     /\ inflight' = [inflight EXCEPT ![t] = infl]
                ELSE /\ stage' = [stage EXCEPT ![t] =
                            CASE c.tool = "add_reaction" ->
                                    (IF f.is_custom THEN "channel" ELSE "put")
                              [] c.tool = "remove_reaction" -> "delete"
                              [] OTHER -> "single"]
                     /\ started' = [started EXCEPT ![t] =
                            IF c.tool = "add_reaction" THEN <<c.emoji>> ELSE <<>>]
                     /\ events' = [events EXCEPT ![t] = Append(ev, Sent(req))]
                     /\ inflight' = [inflight EXCEPT ![t] = Append(infl, req)]

\* A group's handler raised `exc`: the registry goes on with the next group
\* when the exception is the one it catches, and lets it out otherwise.
RaiseOut(t, exc, text, ev, infl) ==
    IF RegistryContinues(exc)
    THEN /\ Dispatch(t, call[t], Len(invoked[t]) + 1, ev, infl)
         /\ UNCHANGED call
    ELSE /\ pc' = [pc EXCEPT ![t] = "done"]
         /\ stage' = [stage EXCEPT ![t] = "none"]
         /\ outcome' = [outcome EXCEPT ![t] = RaiseOutcome(exc, text)]
         /\ events' = [events EXCEPT ![t] = ev]
         /\ inflight' = [inflight EXCEPT ![t] = infl]
         /\ UNCHANGED <<call, invoked, frame, idx, results, errors, started, returned, result,
                         auth, auth_token_context, tools>>

\* A client places a call on the registry while no other call runs.  There
\* is a registry only when the client was constructed.
StartCall(t) ==
    /\ auth.constructed
    /\ \A u \in Tasks : pc[u] = "idle"
    /\ \E c \in DiscordCalls :
        /\ call' = [call EXCEPT ![t] = c]
        /\ Dispatch(t, c, 1, <<>>, <<>>)

\* ------------------------------------------------------------- add_reaction
\* add_reaction returns the dict r: to the registry when the tool is
\* add_reaction; to the loop of add_multiple_reactions otherwise, which files
\* the emoji under results or errors.
ReactionReturn(t, r, ev, infl) ==
    IF call[t].tool = "add_reaction"
    THEN ReturnOut(t, r, ev, infl)
    ELSE /\ stage' = [stage EXCEPT ![t] = "loop"]
         /\ returned' = [returned EXCEPT ![t] = Append(@, r.success)]
         /\ results' = [results EXCEPT ![t] =
                IF r.success THEN Append(@, [emoji |-> r.emoji, success |-> TRUE]) ELSE @]
         /\ errors' = [errors EXCEPT ![t] =
                IF r.success THEN @ ELSE Append(@, [emoji |-> r.emoji, error |-> r.error])]
         /\ events' = [events EXCEPT ![t] = ev]
         /\ inflight' = [inflight EXCEPT ![t] = infl]
         /\ UNCHANGED <<pc, call, invoked, frame, idx, started, outcome, result, auth, auth_token_context, tools>>

\* add_reaction goes on to its next await, issuing `req`.
ReactionAwait(t, f, st, req, ev, infl) ==
    /\ stage' = [stage EXCEPT ![t] = st]
    /\ frame' = [frame EXCEPT ![t] = f]
    /\ events' = [events EXCEPT ![t] = Append(ev, Sent(req))]
    /\ inflight' = [inflight EXCEPT ![t] = Append(infl, req)]
    /\ UNCHANGED <<pc, call, invoked, idx, results, errors, started, returned, outcome, result,
                    auth, auth_token_context, tools>>

\* GET /channels/{channel_id} is answered.
OnChannel(t) ==
    /\ pc[t] = "running" /\ stage[t] = "channel"
    /\ \E i \in 1..Len(inflight[t]), resp \in ChannelResponses :
        LET req  == inflight[t][i]
            ret  == make_request(req, resp)
            ev   == Append(events[t], Answered(req, resp, ret))
            infl == RemoveAt(inflight[t], i)
            f    == [frame[t] EXCEPT !.guild_id = ret.guild_id]
        IN  /\ req.route = "channel"
            /\ IF ~ret.ok
               THEN ReactionReturn(t, ReactionFailure(call[t], frame[t], ret.text), ev, infl)
               ELSE IF ret.guild_id = ""
               THEN ReactionReturn(t, ReactionFailure(call[t], frame[t],
                        <<"Custom emoji requires a guild channel (no guild_id found for channel)">>),
                        ev, infl)
               ELSE ReactionAwait(t, f, "emojis", GuildEmojisRequest(ret.guild_id), ev, infl)

\* GET /guilds/{guild_id}/emojis is answered.
OnGuildEmojis(t) ==
    /\ pc[t] = "running" /\ stage[t] = "emojis"
    /\ \E i \in 1..Len(inflight[t]), resp \in GuildEmojiResponses :
        LET req  == inflight[t][i]
            ret  == make_request(req, resp)
            ev   == Append(events[t], Answered(req, resp, ret))
            infl == RemoveAt(inflight[t], i)
        IN  /\ req.route = "guild_emojis"
            /\ IF ~ret.ok
               THEN ReactionReturn(t, ReactionFailure(call[t], frame[t], ret.text), ev, infl)
               ELSE IF ret.kind = "raw"
               THEN ReactionReturn(t, ReactionFailure(call[t], frame[t],
                        <<"'str' object has no attribute 'get'">>), ev, infl)
               ELSE IF ~EmojiInGuild(frame[t].custom_id, ret.emoji_ids)
               THEN ReactionReturn(t, ReactionFailure(call[t], frame[t],
                        <<"Custom emoji id not found in guild or bot lacks access to it">>),
                        ev, infl)
               ELSE ReactionAwait(t, frame[t], "put", PutRequest(call[t], frame[t]), ev, infl)

\* PUT .../reactions/{emoji}/@me is answered.
OnPut(t) ==
    /\ pc[t] = "running" /\ stage[t] = "put"
    /\ \E i \in 1..Len(inflight[t]), resp \in ReactionResponses :
        LET req  == inflight[t][i]
            ret  == make_request(req, resp)
            ev   == Append(events[t], Answered(req, resp, ret))
            infl == RemoveAt(inflight[t], i)
        IN  /\ req.method = "PUT"
            /\ IF ret.ok
               THEN ReactionReturn(t, ReactionSuccess(call[t], frame[t]), ev, infl)
               ELSE ReactionReturn(t, ReactionFailure(call[t], frame[t], ret.text), ev, infl)

\* --------------------------------------------------- add_multiple_reactions
\* a variant that starts the next add_reaction without awaiting the last,
\* which C4 tells from the code
AddReactionNotAwaited(t) == TRUE

\* `result = await self.add_reaction(...)`: the loop goes on only when the
\* add_reaction it awaits has returned
AddReactionAwaited(t) == stage[t] = "loop"

\* a variant that leaves the loop at the first failure, which C2 tells from
\* the code
LoopExhaustedOrFailed(t) == idx[t] >= Len(call[t].emojis) \/ errors[t] /= <<>>

\* `for emoji in emojis`: the loop ends when the list is exhausted
LoopExhausted(t) == idx[t] >= Len(call[t].emojis)

\* The loop takes the next emoji and calls add_reaction with it.
MultiNext(t) ==
    /\ pc[t] = "running" /\ call[t].tool = "add_multiple_reactions"
    /\ AddReactionAwaited(t)
    /\ ~LoopExhausted(t)
    /\ LET e   == call[t].emojis[idx[t] + 1]
           f   == NewFrame(e)
           req == IF f.is_custom THEN ChannelRequest(call[t]) ELSE PutRequest(call[t], f)
       IN  /\ idx' = [idx EXCEPT ![t] = @ + 1]
           /\ started' = [started EXCEPT ![t] = Append(@, e)]
           /\ frame' = [frame EXCEPT ![t] = f]
           /\ stage' = [stage EXCEPT ![t] = IF f.is_custom THEN "channel" ELSE "put"]
           /\ events' = [events EXCEPT ![t] = Append(@, Sent(req))]
           /\ inflight' = [inflight EXCEPT ![t] = Append(@, req)]
           /\ UNCHANGED <<pc, call, invoked, results, errors, returned, outcome, result, auth, auth_token_context, tools>>

\* The loop is over: add_multiple_reactions returns its aggregate.
MultiReturn(t) ==
    /\ pc[t] = "running" /\ call[t].tool = "add_multiple_reactions"
    /\ AddReactionAwaited(t)
    /\ LoopExhausted(t)
    /\ ReturnOut(t, AggregateResult(call[t], results[t], errors[t]), events[t], inflight[t])

\* ------------------------------------------------------------ the other tools
\* remove_reaction: DELETE .../reactions/{emoji}/@me is answered.
OnDelete(t) ==
    /\ pc[t] = "running" /\ stage[t] = "delete"
    /\ \E i \in 1..Len(inflight[t]), resp \in DeleteResponses :
        LET req  == inflight[t][i]
            ret  == make_request(req, resp)
            ev   == Append(events[t], Answered(req, resp, ret))
            infl == RemoveAt(inflight[t], i)
            c    == call[t]
        IN  IF ret.ok
            THEN ReturnOut(t, [success |-> TRUE,
                               message |-> <<"Successfully removed reaction ", c.emoji>>,
                               emoji |-> c.emoji, message_id |-> c.message_id,
                               channel_id |-> c.channel_id], ev, infl)
            ELSE ReturnOut(t, [success |-> FALSE, error |-> ret.text,
                               emoji |-> c.emoji, message_id |-> c.message_id,
                               channel_id |-> c.channel_id], ev, infl)

\* what the tools that issue one request return: the formatted data, and for
\* send_message the content_preview
DataResult(c) ==
    [kind |-> "data", tool |-> c.tool,
     content_preview |-> IF c.tool = "send_message" THEN content_preview(c.content) ELSE <<>>]

\* The request of a tool that issues exactly one is answered: the handler
\* returns the formatted data, or logs and re-raises what went wrong.
OnSingle(t) ==
    /\ pc[t] = "running" /\ stage[t] = "single"
    /\ \E i \in 1..Len(inflight[t]), resp \in DataResponses :
        LET req  == inflight[t][i]
            ret  == make_request(req, resp)
            ev   == Append(events[t], Answered(req, resp, ret))
            infl == RemoveAt(inflight[t], i)
        IN  IF ~ret.ok
            THEN RaiseOut(t, "RuntimeError", ret.text, ev, infl)
            ELSE IF ret.kind = "raw" /\ call[t].tool \in ListTools
            THEN RaiseOut(t, "AttributeError", <<"'str' object has no attribute 'get'">>, ev, infl)
            ELSE ReturnOut(t, DataResult(call[t]), ev, infl)

\* A call that runs without suspending ends within one action.
Complete(t, c, ev, out, value) ==
    /\ pc' = [pc EXCEPT ![t] = "done"]
    /\ call' = [call EXCEPT ![t] = c]
    /\ events' = [events EXCEPT ![t] = ev]
    /\ outcome' = [outcome EXCEPT ![t] = out]
    /\ result' = [result EXCEPT ![t] = value]
    /\ UNCHANGED <<invoked, stage, frame, idx, results, errors, started, returned, inflight,
                    auth, auth_token_context, tools>>

\* --------------------------------------------------- the Discord server module
\* server.py defines one wrapper per tool:
\*     try:
\*     result = await tool_registry.handle_tool_call(...)
\*         return f"...: {result}"
\*     except Exception as e:
\*         return str(e)
\* The statement after `try:` is not indented under it, in every wrapper, so
\* Python rejects the module with IndentationError before any wrapper exists:
\* a call to a tool of the server ends with that exception, in no wrapper.
ServerToolCall(t) ==
    /\ \A u \in Tasks : pc[u] = "idle"
    /\ \E tool \in DiscordTools :
        Complete(t, [NoCall EXCEPT !.adapter = "discord_server", !.tool = tool], <<>>,
                 RaiseOutcome("IndentationError",
                              <<"expected an indented block after 'try' statement">>),
                 NoResult)

\* ------------------------------------------------- the Google Photos adapter
\* call_tool: the names it has a branch for
PhotosTools == {"search_photos", "search_photos_by_location", "get_photo",
                "get_photo_url", "list_albums", "get_album", "list_album_photos"}

\* the parameters of the tool functions of server.py
Params(tool) ==
    CASE tool = "search_photos" -> {"query", "page_size", "page_token", "include_location"}
      [] tool = "search_photos_by_location" -> {"location_name", "page_size", "page_token"}
      [] tool = "get_photo" -> {"photo_id", "include_base64", "include_location"}
      [] tool = "get_photo_url" -> {"photo_id", "size"}
      [] tool = "list_albums" -> {"page_size", "page_token"}
      [] tool = "get_album" -> {"album_id"}
      [] tool = "list_album_photos" -> {"album_id", "page_size", "page_token", "include_location"}
      [] OTHER -> {}

\* those without a default
Required(tool) ==
    CASE tool = "search_photos" -> {"query"}
      [] tool = "search_photos_by_location" -> {"location_name"}
      [] tool \in {"get_photo", "get_photo_url"} -> {"photo_id"}
      [] tool \in {"get_album", "list_album_photos"} -> {"album_id"}
      [] OTHER -> {}

\* list_tools: the properties of each tool's inputSchema, and the required ones
SchemaProperties(tool) ==
    CASE tool = "search_photos" -> {"query", "pageSize", "pageToken", "includeLocation"}
      [] tool = "search_photos_by_location" -> {"locationName", "pageSize", "pageToken"}
      [] tool = "get_photo" -> {"photoId", "includeBase64", "includeLocation"}
      [] tool = "get_photo_url" -> {"photoId", "size"}
      [] tool = "list_albums" -> {"pageSize", "pageToken"}
      [] tool = "get_album" -> {"albumId"}
      [] tool = "list_album_photos" -> {"albumId", "pageSize", "pageToken", "includeLocation"}
      [] OTHER -> {}

SchemaRequired(tool) ==
    CASE tool = "search_photos" -> {"query"}
      [] tool = "search_photos_by_location" -> {"locationName"}
      [] tool \in {"get_photo", "get_photo_url"} -> {"photoId"}
      [] tool \in {"get_album", "list_album_photos"} -> {"albumId"}
      [] OTHER -> {}

\* call_tool: `await tool(**arguments)` binds when every key is a parameter
\* and every parameter without a default has a key
BindsArguments(tool, keys) == keys \subseteq Params(tool) /\ Required(tool) \subseteq keys

\* utils.get_photos_service(access_token, refresh_token, client_id,
\* client_secret, token_uri) has 5 parameters without a default; every tool
\* of server.py calls get_photos_service(access_token)
SERVICE_PARAMETERS == 5
SERVICE_ARGUMENTS == 1
ServiceCallBinds == SERVICE_ARGUMENTS = SERVICE_PARAMETERS

\* an upstream request of the Google Photos adapter
PhotosRequest(route, target, page_size, page_token) ==
    [method |-> "execute", route |-> route, target |-> target,
     keys |-> IF page_token /= "" THEN {"pageSize", "pageToken"} ELSE {"pageSize"},
     page_size |-> page_size, page_token |-> page_token]

PhotosResponse(status, is_json, message) ==
    [ok |-> status < 400, status |-> status, is_json |-> is_json, message |-> message]

PhotosResponses ==
    { PhotosResponse(200, TRUE, ""),
      PhotosResponse(403, TRUE, "The caller does not have permission"),
      PhotosResponse(404, TRUE, "Requested entity was not found."),
      PhotosResponse(500, FALSE, "<html>") }

\* the pageSize arguments a caller may pass
PageSizeInputs == {-1, 0, 1, 20, 50, 51, 100, 101}

\* list_albums: params = {"pageSize": min(page_size, 50)}
list_albums_pageSize(page_size) == Min(page_size, LIST_ALBUMS_MAX)

\* list_album_photos: "pageSize": min(page_size, 100)
list_album_photos_pageSize(page_size) == Min(page_size, ALBUM_PHOTOS_MAX)

\* a variant without the cap, which C11 tells from the code
list_picked_media_items_pageSize_uncapped(pageSize) == pageSize

\* google_photos_list_picked_media_items: "pageSize": min(pageSize, 100)
list_picked_media_items_pageSize(pageSize) == Min(pageSize, PICKED_ITEMS_MAX)

\* the request a tool of server.py builds once it holds a service
LibraryRequest(c) ==
    LET size == IF "page_size" \in c.keys THEN c.page_size
                ELSE IF c.tool = "list_albums" THEN LIST_ALBUMS_DEFAULT
                ELSE PHOTOS_PAGE_DEFAULT
    IN  CASE c.tool = "list_albums" ->
                PhotosRequest("albums.list", "", list_albums_pageSize(size), c.page_token)
          [] c.tool = "list_album_photos" ->
                PhotosRequest("mediaItems.search", "album", list_album_photos_pageSize(size),
                              c.page_token)
          [] c.tool \in {"search_photos", "search_photos_by_location"} ->
                PhotosRequest("mediaItems.search", "", Min(size, SEARCH_MAX), c.page_token)
          [] c.tool = "get_album" -> PhotosRequest("albums.get", "album", 0, "")
          [] OTHER -> PhotosRequest("mediaItems.get", "photo", 0, "")

\* how a call ends: the outcome, the value returned and the upstream traffic
Ended(out, value, ev) == [outcome |-> out, value |-> value, events |-> ev]

\* the `except HttpError as e` clause of the tools of server.py, the same for
\* every status:
\*     error_detail = json.loads(e.content.decode('utf-8'))
\*     raise RuntimeError(f"Google Photos API Error ({e.resp.status}): {message}")
photos_http_error(resp) ==
    IF resp.is_json
    THEN RaiseOutcome("RuntimeError",
                      <<"Google Photos API Error (", ToString(resp.status), "): ", resp.message>>)
    ELSE RaiseOutcome("JSONDecodeError", <<"Expecting value">>)

\* A tool function of server.py (search_photos .. list_album_photos):
\*     try: access_token = get_auth_token(); service = get_photos_service(access_token); ...
\*     except HttpError as e: raise RuntimeError(...)
\*     except Exception as e: raise e
LibraryTool(c, resp) ==
    LET req == LibraryRequest(c)
        ev  == <<ReqEvent(req), RespEvent(req, resp)>>
    IN  IF c.token_context = "unset"
        THEN Ended(RaiseOutcome("RuntimeError",
                        <<"Authentication token not found in request context">>), NoResult, <<>>)
        ELSE IF ~ServiceCallBinds
        THEN Ended(RaiseOutcome("TypeError",
                        <<"get_photos_service() missing 4 required positional arguments">>),
                   NoResult, <<>>)
        ELSE IF resp.ok
        THEN Ended(ReturnOutcome, [kind |-> "data", tool |-> c.tool], ev)
        ELSE Ended(photos_http_error(resp), NoResult, ev)

\* call_tool(name, arguments): an if/elif chain over the names, each branch
\*     result = await tool(**arguments)
\*     return [types.TextContent(type="text", text=json.dumps(result, indent=2))]
\* and `else: raise ValueError(f"Unknown tool: {name}")`; nothing is caught.
call_tool(c, resp) ==
    IF c.tool \notin PhotosTools
    THEN Ended(RaiseOutcome("ValueError", <<"Unknown tool: ", c.tool>>), NoResult, <<>>)
    ELSE IF ~BindsArguments(c.tool, c.keys)
    THEN Ended(RaiseOutcome("TypeError", <<"got an unexpected keyword argument">>),
               NoResult, <<>>)
    ELSE LET r == LibraryTool(c, resp)
         IN  IF r.outcome.kind = "raise" THEN r
             ELSE Ended([ReturnOutcome EXCEPT !.text = <<"json.dumps", r.value.tool>>],
                        r.value, r.events)

\* the argument maps a client may send for a tool: the keys of its schema,
\* the names of the parameters of its function, or none
ArgumentKeys(tool) ==
    { SchemaRequired(tool),
      SchemaRequired(tool) \cup ({"pageSize"} \cap SchemaProperties(tool)),
      Required(tool),
      Required(tool) \cup ({"page_size"} \cap Params(tool)),
      {} }

\* the x-auth-token header of a request: absent, empty, a token
XAuthTokens == {None, "", "tokenA"}

\* handle_sse, handle_streamable_http: auth_token_context.set(auth_token or "")
RequestContext(header) == IF header = None \/ header = "" THEN "" ELSE header

\* the contexts a call may run in: the one its request set, or none when no
\* request set one
TokenContexts == {Unset} \cup {RequestContext(h) : h \in XAuthTokens}

PhotosCalls ==
    { [NoCall EXCEPT !.adapter = "photos", !.tool = tool, !.keys = keys,
                     !.page_size = size, !.token_context = ctx] :
        tool \in PhotosTools \cup UnknownTools, keys \in UNION {ArgumentKeys(n) : n \in PhotosTools},
        size \in PageSizeInputs, ctx \in TokenContexts }

\* A client calls a tool of the Google Photos server.
PhotosCallTool(t) ==
    /\ \A u \in Tasks : pc[u] = "idle"
    /\ \E c \in PhotosCalls, resp \in PhotosResponses :
        /\ c.keys \in ArgumentKeys(c.tool) \/ c.tool \in UnknownTools
        /\ ({"page_size", "pageSize"} \cap c.keys = {}) => c.page_size = 0
        /\ ({"page_size", "pageSize"} \cap c.keys /= {}) => c.page_size \in PageSizeInputs
        /\ LET r == call_tool(c, resp)
           IN  Complete(t, c, r.events, r.outcome, r.value)

\* tools/base.py reads GOOGLE_REFRESH_TOKEN, GOOGLE_CLIENT_ID and
\* GOOGLE_CLIENT_SECRET with os.getenv when it is imported: a variable that
\* is not set reads None
EnvCredentials == {"GOOGLE_REFRESH_TOKEN", "GOOGLE_CLIENT_ID", "GOOGLE_CLIENT_SECRET"}

\* the value read for the variable `name`
EnvValue(name, env_missing) == IF name \in env_missing THEN None ELSE "set"

\* utils.get_picker_service: Credentials(token=..., refresh_token=..., ...)
\* and build(...): the values are stored as they come, None included
get_picker_service(access_token, refresh_token, client_id, client_secret) ==
    [token |-> access_token, refresh_token |-> refresh_token,
     client_id |-> client_id, client_secret |-> client_secret]

\* tools/base.py: get_picker_service_with_credentials(access_token)
get_picker_service_with_credentials(access_token, env_missing) ==
    get_picker_service(access_token,
                       EnvValue("GOOGLE_REFRESH_TOKEN", env_missing),
                       EnvValue("GOOGLE_CLIENT_ID", env_missing),
                       EnvValue("GOOGLE_CLIENT_SECRET", env_missing))

\* request.execute() on a service: the request goes out with its credentials
Executed(req, service) == [ev |-> "req", req |-> req, credentials |-> service]

\* tools/list_picked_media_items.py: google_photos_list_picked_media_items(
\* access_token, sessionId, pageSize=50, pageToken=None); pageToken is sent
\* only when it is truthy; an HttpError becomes a RuntimeError
list_picked_media_items(c, resp) ==
    LET size == IF "pageSize" \in c.keys THEN c.page_size ELSE PICKED_ITEMS_DEFAULT
        req  == PhotosRequest("picker.mediaItems.list", "session",
                              list_picked_media_items_pageSize(size), c.page_token)
        service == get_picker_service_with_credentials(c.token_context, c.env_missing)
        ev   == <<Executed(req, service), RespEvent(req, resp)>>
    IN  IF resp.ok
        THEN Ended(ReturnOutcome, [kind |-> "data", tool |-> c.tool], ev)
        ELSE Ended(RaiseOutcome("RuntimeError",
                        <<"Google Photos Picker API Error (", ToString(resp.status),
                          IF resp.is_json THEN resp.message ELSE "HttpError">>),
                   NoResult, ev)

PickerCalls ==
    { [NoCall EXCEPT !.adapter = "photos_picker", !.tool = "list_picked_media_items",
                     !.keys = keys, !.page_size = size, !.page_token = tok,
                     !.token_context = access_token] :
        keys \in {{"access_token", "sessionId"}, {"access_token", "sessionId", "pageSize"}},
        size \in PageSizeInputs, tok \in {"", "next"}, access_token \in {"", "tokenA"} }
    \cup
    { [NoCall EXCEPT !.adapter = "photos_picker", !.tool = "list_picked_media_items",
                     !.keys = {"access_token", "sessionId"},
                     !.token_context = "tokenA", !.env_missing = missing] :
        missing \in SUBSET EnvCredentials }

\* A caller lists the media items picked in a session.
PickerListItems(t) ==
    /\ \A u \in Tasks : pc[u] = "idle"
    /\ \E c \in PickerCalls, resp \in PhotosResponses :
        /\ ("pageSize" \notin c.keys) => c.page_size = 0
        /\ LET r == list_picked_media_items(c, resp)
           IN  Complete(t, c, r.events, r.outcome, r.value)

\* list_tools of the Google Photos server: the names of the tools it returns
list_tools == <<"search_photos", "search_photos_by_location", "get_photo", "get_photo_url",
                "list_albums", "get_album", "list_album_photos">>

\* A client asks an adapter for its catalog.
ListCatalog(t) ==
    /\ \A u \in Tasks : pc[u] = "idle"
    /\ \/ /\ auth.constructed
          /\ Complete(t, [NoCall EXCEPT !.adapter = "discord_catalog",
                                        !.tool = "get_all_tool_definitions"], <<>>,
                      ReturnOutcome, [kind |-> "catalog", names |-> get_all_tool_definitions])
       \/ Complete(t, [NoCall EXCEPT !.adapter = "photos_catalog", !.tool = "list_tools"],
                   <<>>, ReturnOutcome, [kind |-> "catalog", names |-> list_tools])

\* The caller takes the outcome of the call; the task is free again.
Finish(t) ==
    /\ pc[t] = "done"
    /\ pc' = [pc EXCEPT ![t] = "idle"]
    /\ call' = [call EXCEPT ![t] = NoCall]
    /\ invoked' = [invoked EXCEPT ![t] = <<>>]
    /\ stage' = [stage EXCEPT ![t] = "none"]
    /\ frame' = [frame EXCEPT ![t] = NoFrame]
    /\ idx' = [idx EXCEPT ![t] = 0]
    /\ results' = [results EXCEPT ![t] = <<>>]
    /\ errors' = [errors EXCEPT ![t] = <<>>]
    /\ started' = [started EXCEPT ![t] = <<>>]
    /\ returned' = [returned EXCEPT ![t] = <<>>]
    /\ events' = [events EXCEPT ![t] = <<>>]
    /\ inflight' = [inflight EXCEPT ![t] = <<>>]
    /\ outcome' = [outcome EXCEPT ![t] = NoOutcome]
    /\ result' = [result EXCEPT ![t] = NoResult]
    /\ UNCHANGED <<auth, auth_token_context, tools>>

Next ==
    \E t \in Tasks :
        \/ StartCall(t)
        \/ OnChannel(t)
        \/ OnGuildEmojis(t)
        \/ OnPut(t)
        \/ MultiNext(t)
        \/ MultiReturn(t)
        \/ OnDelete(t)
        \/ OnSingle(t)
        \/ ServerToolCall(t)
        \/ PhotosCallTool(t)
        \/ PickerListItems(t)
        \/ ListCatalog(t)
        \/ Finish(t)

Spec == Init /\ [][Next]_vars

\* ------------------------------------------------------- concurrent calls
\* The event loop runs the handlers of different calls in turn: a call may
\* start while others are suspended at an await.  The calls that overlap are
\* add_multiple_reactions calls over Unicode emojis.
ConcurrentCalls ==
    {DiscordCall("add_multiple_reactions", <<>>,
                 [i \in 1..MaxEmojis |-> EmojiUnicode], FALSE, 0)}

StartConcurrent(t) ==
    /\ auth.constructed
    /\ pc[t] = "idle"
    /\ \A u \in Tasks : pc[u] /= "idle" => call[u] \in ConcurrentCalls
    /\ \E c \in ConcurrentCalls :
        /\ call' = [call EXCEPT ![t] = c]
        /\ Dispatch(t, c, 1, <<>>, <<>>)

NextConc ==
    \E t \in Tasks :
        \/ StartCall(t)
        \/ StartConcurrent(t)
        \/ OnChannel(t)
        \/ OnGuildEmojis(t)
        \/ OnPut(t)
        \/ MultiNext(t)
        \/ MultiReturn(t)
        \/ OnDelete(t)
        \/ OnSingle(t)
        \/ ServerToolCall(t)
        \/ PhotosCallTool(t)
        \/ PickerListItems(t)
        \/ Finish(t)

SpecConc == Init /\ [][NextConc]_vars

\* ------------------------------------------------------ functions on their own
\* normalize_emoji applied to every string of at most MaxEmojiLen characters
\* over the characters its pattern tells apart, and the HttpError clause of
\* get_photo applied to the errors the upstream may answer.
EmojiAlphabet == {"<", ">", ":", "a", "1"}

EmojiStrings == UNION {[1..k -> EmojiAlphabet] : k \in 0..MaxEmojiLen}

InputCall(e) ==
    [NoCall EXCEPT !.adapter = "function", !.tool = "normalize_emoji", !.emoji = e]

InitFunctions ==
    /\ auth = DiscordAuth_init("bot-token")
    /\ tools = Groups
    /\ pc = [t \in Tasks |-> "idle"]
    /\ call \in {[t \in Tasks |-> IF t = 1 THEN InputCall(e) ELSE NoCall] : e \in EmojiStrings}
    /\ invoked = [t \in Tasks |-> <<>>]
    /\ auth_token_context = [ctx \in Tasks |-> Unset]
    /\ stage = [t \in Tasks |-> "none"]
    /\ frame = [t \in Tasks |-> NoFrame]
    /\ idx = [t \in Tasks |-> 0]
    /\ results = [t \in Tasks |-> <<>>]
    /\ errors = [t \in Tasks |-> <<>>]
    /\ started = [t \in Tasks |-> <<>>]
    /\ returned = [t \in Tasks |-> <<>>]
    /\ events = [t \in Tasks |-> <<>>]
    /\ inflight = [t \in Tasks |-> <<>>]
    /\ outcome = [t \in Tasks |-> NoOutcome]
    /\ result = [t \in Tasks |-> NoResult]

\* normalize_emoji(emoji) returns
NormalizeInput ==
    /\ pc[1] = "idle" /\ call[1].tool = "normalize_emoji"
    /\ Complete(1, call[1], <<>>, ReturnOutcome,
                [kind |-> "emoji", normalized |-> normalize_emoji(call[1].emoji)])

\* get_photo: request.execute() raises HttpError and the except clause
\* translates it
GetPhotoHttpError ==
    /\ pc[1] = "idle" /\ call[1].emoji = <<>>
    /\ \E resp \in PhotosResponses :
        /\ ~resp.ok
        /\ LET c   == [NoCall EXCEPT !.adapter = "function", !.tool = "get_photo",
                                      !.keys = {"photo_id"}, !.token_context = "tokenA"]
               req == PhotosRequest("mediaItems.get", "photo", 0, "")
           IN  Complete(1, c, <<ReqEvent(req), RespEvent(req, resp)>>,
                        photos_http_error(resp), NoResult)

\* the keys format_picker_media_item always writes
PickerItemKeys == {"id", "createTime", "type", "filename", "mimeType", "baseUrl",
                   "width", "height", "cameraMake", "cameraModel"}

\* the two type-specific blocks of mediaFileMetadata
MetadataBlocks == {"photoMetadata", "videoMetadata"}

\* a variant with two independent tests, which C25 tells from the code
format_picker_media_item_both(item) ==
    LET metadata == IF {"mediaFile", "mediaFileMetadata"} \subseteq item
                    THEN item \ {"mediaFile", "mediaFileMetadata"} ELSE {}
    IN  PickerItemKeys \cup (metadata \cap MetadataBlocks)

\* utils.format_picker_media_item, on the keys of the item:
\*     metadata = item.get('mediaFile', {}).get('mediaFileMetadata', {})
\*     if 'photoMetadata' in metadata: formatted_item['photoMetadata'] = ...
\*     elif 'videoMetadata' in metadata: formatted_item['videoMetadata'] = ...
format_picker_media_item(item) ==
    LET metadata == IF {"mediaFile", "mediaFileMetadata"} \subseteq item
                    THEN item \ {"mediaFile", "mediaFileMetadata"} ELSE {}
    IN  PickerItemKeys \cup
            (IF "photoMetadata" \in metadata THEN {"photoMetadata"}
             ELSE IF "videoMetadata" \in metadata THEN {"videoMetadata"}
             ELSE {})

\* the items an upstream answer may hold, each as the keys it carries: the
\* keys of mediaFileMetadata are there only within mediaFile.mediaFileMetadata
PickerItems ==
    { item \in SUBSET ({"mediaFile", "mediaFileMetadata", "width"} \cup MetadataBlocks) :
        /\ "mediaFileMetadata" \in item => "mediaFile" \in item
        /\ item \cap ({"width"} \cup MetadataBlocks) /= {} => "mediaFileMetadata" \in item }

\* format_picker_media_item(item) returns
FormatPickerItem ==
    /\ pc[1] = "idle" /\ call[1].emoji = <<>>
    /\ \E item \in PickerItems :
        Complete(1, [NoCall EXCEPT !.adapter = "function",
                                    !.tool = "format_picker_media_item", !.keys = item],
                 <<>>, ReturnOutcome,
                 [kind |-> "picker_item", keys |-> format_picker_media_item(item)])

NextFunctions == NormalizeInput \/ GetPhotoHttpError \/ FormatPickerItem

SpecFunctions == InitFunctions /\ [][NextFunctions]_vars

\* ------------------------------------------- Google Photos request handlers
\* handle_sse and handle_streamable_http:
\*     token = auth_token_context.set(auth_token or "")
\*     try: <serve the request>
\*     finally: auth_token_context.reset(token)
\* The server runs every request on a task of its own, and a task runs in
\* its own copy of the context: requests overlap at the awaits of the body.
MaxReads == 1        \* reads of the token while one request is served

RequestHandlers == {"handle_sse", "handle_streamable_http"}

\* the x-auth-token headers of the requests that overlap
RequestTokens == {"", "tokenA", "tokenB"}

\* a ContextVar holds one value per context: one slot for all requests
ContextShared(t) == 1

\* a ContextVar holds one value per context: the context task t runs in
ContextOf(t) == t

\* ContextVar.set(value): the Token keeps the value the variable had
Token(ctx) == [var |-> "auth_token_context", old_value |-> auth_token_context[ctx]]

\* ContextVar.reset(token) left out: the value stays
reset_skipped(ctx, token) == auth_token_context[ctx]

\* ContextVar.reset(token): the value the variable takes
reset(ctx, token) == token.old_value

\* get_auth_token(): auth_token_context.get(), RuntimeError when there is none
get_auth_token(ctx) ==
    IF auth_token_context[ctx] = Unset
    THEN [kind |-> "raise", exc |-> "RuntimeError", value |-> Unset]
    ELSE [kind |-> "return", exc |-> "", value |-> auth_token_context[ctx]]

\* another request is being served with another token
ServedBesideOther(t) ==
    \E u \in Tasks \ {t} : pc[u] = "serving" /\ call[u].x_auth_token /= call[t].x_auth_token

ReadEvent(t, r) == [ev |-> "read", kind |-> r.kind, value |-> r.value,
                    beside |-> ServedBesideOther(t)]

\* A request arrives: the handler sets the token and starts to serve.
HandleRequest(t) ==
    /\ pc[t] = "idle"
    /\ \E handler \in RequestHandlers, header \in RequestTokens :
        /\ call' = [call EXCEPT ![t] = [NoCall EXCEPT !.adapter = "photos_request",
                                                       !.tool = handler,
                                                       !.x_auth_token = header]]
        /\ frame' = [frame EXCEPT ![t] = Token(ContextOf(t))]
        /\ auth_token_context' =
               [auth_token_context EXCEPT ![ContextOf(t)] = RequestContext(header)]
    /\ pc' = [pc EXCEPT ![t] = "serving"]
    /\ UNCHANGED <<invoked, stage, idx, results, errors, started, returned, events, inflight,
                   outcome, result, auth, tools>>

\* A tool function serving the request reads the token.
ReadToken(t) ==
    /\ pc[t] = "serving"
    /\ Len(events[t]) < MaxReads
    /\ events' = [events EXCEPT ![t] = Append(@, ReadEvent(t, get_auth_token(ContextOf(t))))]
    /\ UNCHANGED <<pc, call, invoked, stage, frame, idx, results, errors, started, returned,
                   inflight, outcome, result, auth, auth_token_context, tools>>

\* The body returns or raises: the finally clause resets the variable.
EndRequest(t) ==
    /\ pc[t] = "serving"
    /\ \E out \in {ReturnOutcome, RaiseOutcome("Exception", <<"request failed">>)} :
        outcome' = [outcome EXCEPT ![t] = out]
    /\ auth_token_context' =
           [auth_token_context EXCEPT ![ContextOf(t)] = reset(ContextOf(t), frame[t])]
    /\ pc' = [pc EXCEPT ![t] = "done"]
    /\ UNCHANGED <<call, invoked, stage, frame, idx, results, errors, started, returned,
                   events, inflight, result, auth, tools>>

NextRequests ==
    \E t \in Tasks :
        \/ HandleRequest(t)
        \/ ReadToken(t)
        \/ EndRequest(t)
        \/ Finish(t)

InitRequests == Init /\ auth.constructed

SpecRequests == InitRequests /\ [][NextRequests]_vars


\* ================================================================ properties
\* the call of task t has ended
Done(t) == pc[t] = "done"

\* the k-th upstream event of task t is the issue of a PUT reaction request
IsPut(t, k) == events[t][k].ev = "req" /\ events[t][k].req.method = "PUT"

\* before its k-th event, task t received a guild_id for its channel and then
\* the emoji list of that guild, with `id` in it
ValidatedBefore(t, k, id) ==
    \E i, j \in 1..(k - 1) :
        /\ i < j
        /\ events[t][i].ev = "resp" /\ events[t][i].req.route = "channel"
        /\ events[t][i].ret.ok /\ events[t][i].ret.guild_id /= ""
        /\ events[t][j].ev = "resp" /\ events[t][j].req.route = "guild_emojis"
        /\ events[t][j].req.target = events[t][i].ret.guild_id
        /\ events[t][j].ret.ok /\ id \in events[t][j].ret.emoji_ids

\* one of the two fetches failed, the guild_id was absent, or `id` was not in
\* the list
ValidationFailed(t, id) ==
    \E i \in 1..Len(events[t]) :
        /\ events[t][i].ev = "resp"
        /\ \/ /\ events[t][i].req.route = "channel"
              /\ (~events[t][i].ret.ok \/ events[t][i].ret.guild_id = "")
           \/ /\ events[t][i].req.route = "guild_emojis"
              /\ (~events[t][i].ret.ok \/ id \notin events[t][i].ret.emoji_ids)

\* the add_reaction calls whose normalized emoji is custom
CustomReaction(t) ==
    /\ call[t].adapter = "discord" /\ call[t].tool = "add_reaction"
    /\ IsCustomEmoji(normalize_emoji(call[t].emoji))

\* C1: in add_reaction with a custom emoji, the PUT request is issued only
\* after GET /channels/{id} returned a guild_id and GET /guilds/{id}/emojis
\* returned a list holding the emoji's id; when a fetch fails, the guild_id is
\* absent or the id is not listed, the call returns success=false and issues
\* no PUT.
C1_PutOnlyAfterValidation ==
    \A t \in Tasks : CustomReaction(t) =>
        LET id == IdPart(normalize_emoji(call[t].emoji))
        IN  /\ \A k \in 1..Len(events[t]) : IsPut(t, k) => ValidatedBefore(t, k, id)
            /\ ValidationFailed(t, id) =>
                /\ \A k \in 1..Len(events[t]) : ~IsPut(t, k)
                /\ Done(t)
                /\ outcome[t].kind = "return"
                /\ result[t].success = FALSE

\* a custom emoji passed both fetches, the PUT was issued and the call succeeded
C1_Witness ==
    \E t \in Tasks :
        /\ CustomReaction(t) /\ Done(t)
        /\ call[t].emoji = EmojiWrapped
        /\ \E k \in 1..Len(events[t]) : IsPut(t, k)
        /\ result[t].success

\* a call of add_multiple_reactions: the group had every argument
MultiCall(t) ==
    /\ call[t].adapter = "discord" /\ call[t].tool = "add_multiple_reactions"
    /\ MissingArgument(call[t]) = 0

\* the emojis of es whose flag is `want`, in the order of es
Picked(es, flags, want) ==
    LET F[k \in 0..Len(es)] ==
            IF k = 0 THEN <<>>
            ELSE IF flags[k] = want THEN Append(F[k - 1], es[k]) ELSE F[k - 1]
    IN  F[Len(es)]

EmojisOf(items) == [i \in 1..Len(items) |-> items[i].emoji]

\* C2: add_multiple_reactions attempts add_reaction for every emoji of the
\* list, in list order, whatever succeeds or fails; each occurrence ends up in
\* exactly one of successful_reactions and failed_reactions, so that their
\* lengths sum to the length of the list.
C2_EveryEmojiAttempted ==
    \A t \in Tasks : MultiCall(t) =>
        /\ started[t] = SubSeq(call[t].emojis, 1, Len(started[t]))
        /\ Done(t) =>
            /\ outcome[t].kind = "return"
            /\ started[t] = call[t].emojis
            /\ Len(returned[t]) = Len(call[t].emojis)
            /\ EmojisOf(result[t].successful_reactions)
                   = Picked(call[t].emojis, returned[t], TRUE)
            /\ EmojisOf(result[t].failed_reactions)
                   = Picked(call[t].emojis, returned[t], FALSE)
            /\ Len(result[t].successful_reactions) + Len(result[t].failed_reactions)
                   = Len(call[t].emojis)

\* the first emoji failed and the second was attempted and succeeded
C2_Witness ==
    \E t \in Tasks :
        /\ MultiCall(t) /\ Done(t)
        /\ Len(call[t].emojis) = 2
        /\ returned[t] = <<FALSE, TRUE>>

\* C3: the result of add_multiple_reactions has success=true exactly when
\* every add_reaction succeeded, that is exactly when failed_reactions is
\* empty; the two counts of summary are the lengths of successful_reactions
\* and failed_reactions.
C3_AggregateSuccess ==
    \A t \in Tasks : (MultiCall(t) /\ Done(t)) =>
        /\ result[t].success <=> (\A i \in 1..Len(returned[t]) : returned[t][i])
        /\ result[t].success <=> (result[t].failed_reactions = <<>>)
        /\ result[t].summary =
               <<"Added ", ToString(Len(result[t].successful_reactions)),
                 " reactions successfully, ",
                 ToString(Len(result[t].failed_reactions)), " failed">>

\* one reaction succeeded, the next failed: the aggregate is a failure
C3_Witness ==
    \E t \in Tasks :
        /\ MultiCall(t) /\ Done(t)
        /\ returned[t] = <<TRUE, FALSE>>
        /\ ~result[t].success
        /\ Len(result[t].successful_reactions) = 1

\* C4: within one add_multiple_reactions call the reactions are applied one
\* after the other: the requests of emoji i+1 start only after the
\* add_reaction of emoji i has returned, so the call never has more than one
\* upstream request in flight (different calls may have theirs in flight
\* together).
C4_SequentialPerCall ==
    \A t \in Tasks : MultiCall(t) =>
        /\ Len(inflight[t]) <= 1
        /\ Len(started[t]) <= Len(returned[t]) + 1
        /\ Len(inflight[t]) = 1 => Len(started[t]) = Len(returned[t]) + 1

\* two calls each have a request in flight, one of them for its second emoji
C4_Witness ==
    \E t, u \in Tasks :
        /\ t /= u /\ MultiCall(t) /\ MultiCall(u)
        /\ Len(inflight[t]) = 1 /\ Len(inflight[u]) = 1
        /\ Len(started[t]) = 2 /\ Len(returned[t]) = 1

\* C5: dispatching a name no group answers yields an error result whose text
\* holds "Unknown tool: <name>", issues no upstream request and does not end
\* as an exception.
C5_UnknownToolIsErrorResult ==
    \A t \in Tasks : (Done(t) /\ call[t].tool \in UnknownTools) =>
        /\ events[t] = <<>>
        /\ outcome[t].kind = "return"
        /\ outcome[t].text = <<"Unknown tool: ", call[t].tool>>

\* C6: in the Discord server every exception of a tool call is caught by the
\* tool's wrapper and returned as text: no call of a wrapper ends as an
\* exception.
C6_WrapperReturnsText ==
    \A t \in Tasks : (Done(t) /\ call[t].adapter = "discord_server") =>
        outcome[t].kind = "return"

\* C7: in the Google Photos server, call_tool returns a text result when the
\* tool fails ("Error: <message>"): no exception leaves call_tool.
C7_CallToolReturnsText ==
    \A t \in Tasks : (Done(t) /\ call[t].adapter = "photos" /\ call[t].tool \in PhotosTools) =>
        outcome[t].kind = "return"

\* the last group the registry invoked for the call of task t
LastInvoked(t) == invoked[t][Len(invoked[t])]

\* C8: the registry invokes the groups in registration order, goes on to the
\* next group only when a group raises NotImplementedError, and stops at the
\* first that does not: it returns that group's result, or lets that group's
\* other exception out, invoking no later group.
C8_RegistrationOrder ==
    \A t \in Tasks : (call[t].adapter = "discord" /\ pc[t] /= "idle") =>
        /\ Len(invoked[t]) >= 1
        /\ invoked[t] = SubSeq(Groups, 1, Len(invoked[t]))
        /\ \A i \in 1..(Len(invoked[t]) - 1) : call[t].tool \notin GroupTools(invoked[t][i])
        /\ (pc[t] = "running" \/ outcome[t].kind = "return")
               => call[t].tool \in GroupTools(LastInvoked(t))
        /\ (Done(t) /\ outcome[t].kind = "raise") =>
               IF call[t].tool \in DiscordTools
               THEN /\ call[t].tool \in GroupTools(LastInvoked(t))
                    /\ outcome[t].exc \notin {"NotImplementedError", "ValueError"}
               ELSE /\ invoked[t] = Groups
                    /\ outcome[t].exc = "ValueError"

\* the third group's handler raised after the first two passed: the fourth
\* group was not invoked
C8_Witness ==
    \E t \in Tasks :
        /\ Done(t) /\ call[t].adapter = "discord"
        /\ call[t].tool = "create_text_channel"
        /\ invoked[t] = <<"server", "messages", "channels">>
        /\ outcome[t].kind = "raise" /\ outcome[t].exc = "RuntimeError"

\* the limit the caller gave, or the default of the tool
GivenLimit(c) ==
    IF c.has_limit THEN c.limit
    ELSE IF c.tool = "list_members" THEN LIST_MEMBERS_DEFAULT ELSE READ_MESSAGES_DEFAULT

\* C9: the limit sent upstream is max(1, min(limit, MAX)), MAX = 1000 for
\* list_members and 100 for read_messages: within [1, MAX] for every input,
\* MAX above the range, 1 below it, and the input itself within the range.
C9_LimitClamped ==
    \A t \in Tasks : (call[t].adapter = "discord" /\ call[t].tool \in ListTools) =>
        \A k \in 1..Len(events[t]) : events[t][k].ev = "req" =>
            LET sent  == events[t][k].req.limit
                given == GivenLimit(call[t])
                top   == IF call[t].tool = "list_members" THEN 1000 ELSE 100
            IN  /\ 1 <= sent /\ sent <= top
                /\ (1 <= given /\ given <= top) => sent = given
                /\ given > top => sent = top
                /\ given < 1 => sent = 1

\* list_members was asked 5000 members and asked the upstream for 1000
C9_Witness ==
    \E t \in Tasks :
        /\ call[t].adapter = "discord" /\ call[t].tool = "list_members"
        /\ call[t].has_limit /\ call[t].limit = 5000
        /\ Len(events[t]) >= 1
        /\ events[t][1].ev = "req" /\ events[t][1].req.limit = 1000

\* the largest pageSize a paging route of Google Photos declares
DeclaredMax(route) == IF route = "albums.list" THEN 50 ELSE 100

\* C10: the pageSize the Google Photos paging tools send upstream is within
\* the declared bounds, [1,100] for list_picked_media_items and
\* list_album_photos and [1,50] for list_albums, for every input.
C10_PageSizeWithinBounds ==
    \A t \in Tasks : call[t].adapter \in {"photos", "photos_picker"} =>
        \A k \in 1..Len(events[t]) :
            (events[t][k].ev = "req"
                /\ events[t][k].req.route \in {"picker.mediaItems.list", "albums.list",
                                                "mediaItems.search"}) =>
                /\ 1 <= events[t][k].req.page_size
                /\ events[t][k].req.page_size <= DeclaredMax(events[t][k].req.route)

\* the pageSize a Google Photos paging call was given, or the tool's default
GivenPageSize(c) ==
    IF c.adapter = "photos_picker"
    THEN (IF "pageSize" \in c.keys THEN c.page_size ELSE 50)
    ELSE IF "page_size" \in c.keys THEN c.page_size
    ELSE IF c.tool = "list_albums" THEN 20 ELSE 25

\* C11: the pageSize sent upstream never exceeds the tool's cap: it is
\* min(pageSize, 100) for list_picked_media_items and list_album_photos and
\* min(pageSize, 50) for list_albums; pageToken is among the parameters of the
\* request only when a non-empty pageToken was given.
C11_PageSizeCapped ==
    \A t \in Tasks :
        /\ call[t].adapter = "photos_picker" =>
              \A k \in 1..Len(events[t]) : events[t][k].ev = "req" =>
                  /\ events[t][k].req.page_size <= 100
                  /\ events[t][k].req.page_size
                         = (IF GivenPageSize(call[t]) < 100 THEN GivenPageSize(call[t]) ELSE 100)
                  /\ ("pageToken" \in events[t][k].req.keys) <=> (call[t].page_token /= "")
                  /\ ("pageToken" \in events[t][k].req.keys)
                         => events[t][k].req.page_token = call[t].page_token
        /\ (call[t].adapter = "photos" /\ call[t].tool \in {"list_albums", "list_album_photos"}) =>
              LET cap == IF call[t].tool = "list_albums" THEN 50 ELSE 100
                  req == LibraryRequest(call[t])
              IN  /\ req.page_size <= cap
                  /\ req.page_size
                         = (IF GivenPageSize(call[t]) < cap THEN GivenPageSize(call[t]) ELSE cap)
                  /\ ("pageToken" \in req.keys) <=> (call[t].page_token /= "")

\* 101 picked items were asked for with a page token: 100 were asked upstream,
\* with the token
C11_Witness ==
    \E t \in Tasks :
        /\ call[t].adapter = "photos_picker" /\ Done(t)
        /\ "pageSize" \in call[t].keys /\ call[t].page_size = 101
        /\ call[t].page_token = "next"
        /\ events[t][1].ev = "req" /\ events[t][1].req.page_size = 100
        /\ "pageToken" \in events[t][1].req.keys

\* C12: the content_preview send_message returns is the content itself when
\* the content has at most 50 characters, and its first 50 characters followed
\* by "..." when it has more; the content sent upstream is the full content.
C12_ContentPreview ==
    \A t \in Tasks : (call[t].adapter = "discord" /\ call[t].tool = "send_message") =>
        /\ \A k \in 1..Len(events[t]) : events[t][k].ev = "req" =>
               /\ events[t][k].req.body.keys = {"content"}
               /\ events[t][k].req.body.content = call[t].content
        /\ (Done(t) /\ outcome[t].kind = "return") =>
               result[t].content_preview =
                   (IF Len(call[t].content) <= 50 THEN call[t].content
                    ELSE SubSeq(call[t].content, 1, 50) \o <<".", ".", ".">>)

\* a content of 51 characters was sent whole and previewed as 50 and "..."
C12_Witness ==
    \E t \in Tasks :
        /\ call[t].adapter = "discord" /\ call[t].tool = "send_message"
        /\ Done(t) /\ outcome[t].kind = "return"
        /\ Len(call[t].content) = 51
        /\ Len(events[t][1].req.body.content) = 51
        /\ Len(result[t].content_preview) = 53
        /\ result[t].content_preview[51] = "."

\* the value the body of a request holds under a key
BodyValue(body, key) ==
    CASE key = "name" -> body.name
      [] key = "topic" -> body.topic
      [] key = "parent_id" -> body.parent_id
      [] OTHER -> ""

\* C18: the body create_text_channel sends always holds name and type 0,
\* holds topic only when a topic was given and parent_id only when a
\* category_id was given, and holds no key whose value is null.
C18_ChannelBody ==
    \A t \in Tasks : (call[t].adapter = "discord" /\ call[t].tool = "create_text_channel") =>
        \A k \in 1..Len(events[t]) : events[t][k].ev = "req" =>
            LET body == events[t][k].req.body
            IN  /\ {"name", "type"} \subseteq body.keys
                /\ body.keys \subseteq {"name", "type", "topic", "parent_id"}
                /\ body.name = call[t].name /\ body.type = 0
                /\ "topic" \in body.keys =>
                       (call[t].topic /= None /\ body.topic = call[t].topic)
                /\ "parent_id" \in body.keys =>
                       (call[t].category_id /= None /\ body.parent_id = call[t].category_id)
                /\ \A key \in body.keys \ {"type"} : BodyValue(body, key) /= None

\* a channel was created with a topic and no category: the body holds topic
\* and no parent_id
C18_Witness ==
    \E t \in Tasks :
        /\ call[t].adapter = "discord" /\ call[t].tool = "create_text_channel"
        /\ call[t].topic = "rules" /\ call[t].category_id = None
        /\ Len(events[t]) >= 1
        /\ events[t][1].req.body.keys = {"name", "type", "topic"}

\* the k-th event of task t is an answer of the Discord upstream
IsAnswer(t, k) == call[t].adapter = "discord" /\ events[t][k].ev = "resp"

\* C14: in the Discord upstream client a response with status >= 400 always
\* ends in a raised error and never in returned data, whatever
\* expect_empty_response and the content type are.
C14_ErrorStatusRaises ==
    \A t \in Tasks : \A k \in 1..Len(events[t]) :
        (IsAnswer(t, k) /\ events[t][k].resp.net = "ok" /\ events[t][k].resp.status >= 400) =>
            /\ ~events[t][k].ret.ok
            /\ events[t][k].ret.kind = "RuntimeError"

\* a 502 without JSON answered a request that expected an empty response:
\* an error was raised
C14_Witness ==
    \E t \in Tasks : \E k \in 1..Len(events[t]) :
        /\ IsAnswer(t, k)
        /\ events[t][k].req.expect_empty
        /\ events[t][k].resp.status = 502 /\ ~events[t][k].resp.is_json
        /\ ~events[t][k].ret.ok

\* the kind of error a raised text reports, by the way it starts
ErrorKind(text) ==
    CASE text[1] = "Discord API Error (" -> "http"
      [] text[1] = "Network error during API call to " -> "network"
      [] OTHER -> "other"

\* C15: a 403 whose JSON body is {"error": {"message": "Missing Access"}}
\* raises an error that carries the status 403 and the message
\* "Missing Access" verbatim, as an upstream HTTP error and no other kind.
C15_MissingAccessVerbatim ==
    \A t \in Tasks : \A k \in 1..Len(events[t]) :
        (IsAnswer(t, k) /\ events[t][k].resp.net = "ok" /\ events[t][k].resp.status = 403
            /\ events[t][k].resp.is_json /\ events[t][k].resp.message = "Missing Access") =>
            /\ ~events[t][k].ret.ok
            /\ ErrorKind(events[t][k].ret.text) = "http"
            /\ events[t][k].ret.text = <<"Discord API Error (", "403", "): ", "Missing Access">>

\* C16: the upstream client keeps its failures apart: a connection error or
\* a timeout is raised as a network error, a status >= 400 as an HTTP error,
\* and the two are never reported as the same kind.
C16_ErrorKindsApart ==
    \A t \in Tasks : \A k \in 1..Len(events[t]) :
        IsAnswer(t, k) =>
            /\ events[t][k].resp.net \in {"ClientError", "TimeoutError"} =>
                   (~events[t][k].ret.ok /\ ErrorKind(events[t][k].ret.text) = "network")
            /\ (events[t][k].resp.net = "ok" /\ events[t][k].resp.status >= 400) =>
                   (~events[t][k].ret.ok /\ ErrorKind(events[t][k].ret.text) = "http")

\* C17: for a status below 400 make_request returns None when an empty
\* response is expected and the status is 204, else the parsed JSON when the
\* content type is JSON, else {raw_content: the raw text}; it does not raise
\* for a successful response that is not JSON.
C17_SuccessReturn ==
    \A t \in Tasks : \A k \in 1..Len(events[t]) :
        (IsAnswer(t, k) /\ events[t][k].resp.net = "ok" /\ events[t][k].resp.status < 400) =>
            /\ events[t][k].ret.ok
            /\ events[t][k].ret.kind =
                   (IF events[t][k].req.expect_empty /\ events[t][k].resp.status = 204
                    THEN "none"
                    ELSE IF events[t][k].resp.is_json THEN "json" ELSE "raw")
            /\ events[t][k].ret.kind = "raw" =>
                   events[t][k].ret.raw_content = events[t][k].resp.message

\* a 200 without JSON answered a request that expected an empty response:
\* the raw text was returned
C17_Witness ==
    \E t \in Tasks : \E k \in 1..Len(events[t]) :
        /\ IsAnswer(t, k)
        /\ events[t][k].req.expect_empty
        /\ events[t][k].resp.status = 200 /\ ~events[t][k].resp.is_json
        /\ events[t][k].ret.ok /\ events[t][k].ret.kind = "raw"
        /\ events[t][k].ret.raw_content = "<html>"

\* e is <:name:id> (p = 2) or <a:name:id> (p = 3): a name without ':' and an
\* id of digits
IsWrapped(e, p) ==
    /\ Len(e) >= p + 4
    /\ e[1] = "<" /\ e[p] = ":" /\ (p = 3 => e[2] = "a")
    /\ e[Len(e)] = ">"
    /\ \E c \in (p + 2)..(Len(e) - 2) :
          /\ e[c] = ":"
          /\ \A i \in (p + 1)..(c - 1) : e[i] /= ":"
          /\ \A i \in (c + 1)..(Len(e) - 1) : e[i] = "1"

\* C13: normalize_emoji is idempotent for every input, those whose name holds
\* '<' or '>' and those with text between the pattern and the final '>'
\* included; <:name:id> and <a:name:id> yield name:id.
C13_NormalizeIdempotent ==
    \A t \in Tasks : (Done(t) /\ call[t].tool = "normalize_emoji") =>
        /\ normalize_emoji(result[t].normalized) = result[t].normalized
        /\ \A p \in {2, 3} : IsWrapped(call[t].emoji, p) =>
               result[t].normalized = SubSeq(call[t].emoji, p + 1, Len(call[t].emoji) - 1)

\* <:a:1>> has text between the pattern and the final '>': it became a:1
C13_Witness ==
    \E t \in Tasks :
        /\ Done(t) /\ call[t].tool = "normalize_emoji"
        /\ call[t].emoji = <<"<", ":", "a", ":", "1", ">", ">">>
        /\ result[t].normalized = <<"a", ":", "1">>

C20_CredentialOnEveryCall ==
    \A t \in Tasks :
        /\ call[t].adapter = "discord" =>
              /\ auth.constructed
              /\ \A k \in 1..Len(events[t]) : events[t][k].ev = "req" =>
                     events[t][k].headers.Authorization[2] \notin {None, ""}
        /\ (call[t].adapter \in {"photos", "photos_picker"}
                /\ call[t].token_context \in {"unset", ""}) =>
              /\ events[t] = <<>>
              /\ Done(t) => outcome[t].kind = "raise"

\* C21: of two Google Photos requests served at the same time with different
\* tokens A and B, each read of the token made while serving the request
\* with A returns A, in every interleaving: the token is kept per request
\* context, not in a slot the requests share.
C21_TokenPerRequest ==
    \A t \in Tasks : call[t].adapter = "photos_request" =>
        \A k \in 1..Len(events[t]) :
            /\ events[t][k].kind = "return"
            /\ events[t][k].value = RequestContext(call[t].x_auth_token)

\* the request with tokenA read its token while the request with tokenB was
\* being served, and the other way round
C21_Witness ==
    \E t, u \in Tasks :
        /\ t /= u /\ pc[t] = "serving" /\ pc[u] = "serving"
        /\ call[t].x_auth_token = "tokenA" /\ call[u].x_auth_token = "tokenB"
        /\ \E k \in 1..Len(events[t]) :
              events[t][k].value = "tokenA" /\ events[t][k].beside
        /\ \E k \in 1..Len(events[u]) :
              events[u][k].value = "tokenB" /\ events[u][k].beside

\* C29: when a Google Photos request handler finishes, by a return or by an
\* exception, the token context is reset to the value it had before the
\* request: code that runs in that context after the request finds no token.
C29_TokenResetAtEnd ==
    \A t \in Tasks : (call[t].adapter = "photos_request" /\ Done(t)) =>
        /\ auth_token_context[ContextOf(t)] = frame[t].old_value
        /\ get_auth_token(ContextOf(t)).kind = "raise"

\* a request with a token ended by an exception after the token was read
C29_Witness ==
    \E t \in Tasks :
        /\ call[t].adapter = "photos_request" /\ Done(t)
        /\ call[t].x_auth_token = "tokenA"
        /\ outcome[t].kind = "raise"
        /\ Len(events[t]) >= 1 /\ events[t][1].value = "tokenA"
        /\ auth_token_context[ContextOf(t)] = Unset

\* the tools that act on a single item
SingleItemTools == {"get_server_info", "list_members", "create_text_channel", "send_message",
                    "read_messages", "add_reaction", "remove_reaction", "get_user_info"}

\* the upstream answered the request with a failure: no answer at all, or a
\* status of 400 and above
FailedAnswer(e) == e.ev = "resp" /\ (e.resp.net /= "ok" \/ e.resp.status >= 400)

\* C23: no upstream request is retried: in a call of a single-item tool no
\* request is issued after a request of the call has failed, no request is
\* issued twice, and the failure is surfaced, as the error the call raises or
\* as the error of its success=false result.
C23_NoRetry ==
    \A t \in Tasks : (call[t].adapter = "discord" /\ call[t].tool \in SingleItemTools) =>
        /\ \A i, j \in 1..Len(events[t]) :
              (i < j /\ events[t][i].ev = "req" /\ events[t][j].ev = "req") =>
                  events[t][i].req /= events[t][j].req
        /\ \A k \in 1..Len(events[t]) : FailedAnswer(events[t][k]) =>
              /\ k = Len(events[t])
              /\ Done(t)
              /\ ~events[t][k].ret.ok
              /\ IF outcome[t].kind = "raise"
                 THEN outcome[t].text = events[t][k].ret.text
                 ELSE /\ outcome[t].kind = "return"
                      /\ result[t].success = FALSE
                      /\ result[t].error = events[t][k].ret.text

\* add_reaction with a custom emoji: the channel was fetched, the fetch of
\* the guild's emojis failed with 403, and the call ended there with the error
C23_Witness ==
    \E t \in Tasks :
        /\ Done(t) /\ call[t].adapter = "discord" /\ call[t].tool = "add_reaction"
        /\ Len(events[t]) = 4
        /\ events[t][4].ev = "resp" /\ events[t][4].req.route = "guild_emojis"
        /\ events[t][4].resp.status = 403
        /\ result[t].success = FALSE

\* a call of add_reaction or remove_reaction: the group had every argument
ReactionCall(t) ==
    /\ call[t].adapter = "discord" /\ call[t].tool \in {"add_reaction", "remove_reaction"}
    /\ MissingArgument(call[t]) = 0

\* C27: add_reaction and remove_reaction never raise: whatever the input and
\* the upstream's answers, they return a result with a boolean success that
\* echoes the emoji as the caller gave it, message_id and channel_id; a
\* failure result carries a non-empty error string.
C27_ReactionsNeverRaise ==
    \A t \in Tasks : (ReactionCall(t) /\ Done(t)) =>
        /\ outcome[t].kind = "return"
        /\ result[t].success \in BOOLEAN
        /\ result[t].emoji = call[t].emoji
        /\ result[t].message_id = call[t].message_id
        /\ result[t].channel_id = call[t].channel_id
        /\ ~result[t].success =>
              /\ "error" \in DOMAIN result[t]
              /\ \E i \in 1..Len(result[t].error) : result[t].error[i] /= ""

\* add_reaction with <:n:1> failed at the validation and echoes <:n:1>
C27_Witness ==
    \E t \in Tasks :
        /\ ReactionCall(t) /\ Done(t) /\ call[t].tool = "add_reaction"
        /\ call[t].emoji = EmojiWrapped
        /\ ~result[t].success
        /\ result[t].emoji = EmojiWrapped
        /\ \A k \in 1..Len(events[t]) : events[t][k].req.method /= "PUT"

\* the emoji inputs that are name:id once normalized
CustomInputs == {EmojiWrapped, EmojiAnimated, EmojiPlain}

\* the requests task t issued, in order, each as its method and route
Issued(t) ==
    LET reqs == SelectSeq(events[t], LAMBDA e : e.ev = "req")
    IN  [i \in 1..Len(reqs) |-> <<reqs[i].req.method, reqs[i].req.route>>]

ReactionSteps == << <<"GET", "channel">>, <<"GET", "guild_emojis">>, <<"PUT", "reaction">> >>

\* C28: the requests of a reaction call are fixed by the kind of the emoji:
\* add_reaction issues exactly one request, the PUT, for an emoji that is not
\* custom, and for a custom one at most three, in the order GET channel, GET
\* guild emojis, PUT; remove_reaction issues exactly one, the DELETE, and
\* never the two GETs, for a custom emoji too.
C28_ReactionRequests ==
    \A t \in Tasks : ReactionCall(t) =>
        IF call[t].tool = "remove_reaction"
        THEN Issued(t) = << <<"DELETE", "reaction">> >>
        ELSE IF call[t].emoji \in CustomInputs
        THEN /\ Len(Issued(t)) \in 1..3
             /\ Issued(t) = SubSeq(ReactionSteps, 1, Len(Issued(t)))
        ELSE Issued(t) = << <<"PUT", "reaction">> >>

\* remove_reaction of the custom emoji <:n:1> ended after its single DELETE
C28_Witness ==
    \E t \in Tasks :
        /\ ReactionCall(t) /\ Done(t) /\ call[t].tool = "remove_reaction"
        /\ call[t].emoji = EmojiWrapped
        /\ Len(events[t]) = 2 /\ events[t][1].req.method = "DELETE"

\* the call carries an id that is malformed
MalformedIdGiven(c) == MalformedId \in {c.channel_id, c.message_id, c.server_id, c.user_id}

\* C24: a call whose argument map lacks a required argument, or carries a
\* malformed id, fails with an input-validation error, and no upstream request
\* is issued for it.
C24_InputValidatedFirst ==
    \A t \in Tasks :
        (call[t].adapter = "discord" /\ call[t].tool \in DiscordTools
            /\ (MissingArgument(call[t]) /= 0 \/ MalformedIdGiven(call[t]))) =>
        /\ events[t] = <<>>
        /\ Done(t)
        /\ outcome[t].kind = "raise"
        /\ outcome[t].exc \in {"KeyError", "ValueError", "TypeError"}

\* a call that lacks a required argument ends with KeyError before any
\* request is issued
MissingArgumentRaises ==
    \A t \in Tasks :
        (call[t].adapter = "discord" /\ call[t].tool \in DiscordTools
            /\ MissingArgument(call[t]) /= 0) =>
        /\ events[t] = <<>> /\ Done(t)
        /\ outcome[t].kind = "raise" /\ outcome[t].exc = "KeyError"

\* no element of the sequence occurs twice
NoDuplicates(names) == \A i, j \in 1..Len(names) : names[i] = names[j] => i = j

\* a client asked an adapter for its catalog and has it
CatalogListed(t) == Done(t) /\ call[t].adapter \in {"discord_catalog", "photos_catalog"}

\* C26: tool names are unique across a catalog: the concatenation of the
\* registered groups' tool definitions (Discord) and the list that list_tools
\* returns (Google Photos) hold no name twice, and no name is defined by two
\* groups.
C26_UniqueToolNames ==
    /\ \A t \in Tasks : CatalogListed(t) => NoDuplicates(result[t].names)
    /\ \A i, j \in 1..Len(tools) :
          i /= j => Range(get_tool_definitions(tools[i]))
                        \cap Range(get_tool_definitions(tools[j])) = {}

\* the Discord catalog was listed: the nine names of the four groups
C26_Witness ==
    \E t \in Tasks :
        /\ CatalogListed(t) /\ call[t].adapter = "discord_catalog"
        /\ Len(result[t].names) = 9
        /\ result[t].names[1] = "get_server_info" /\ result[t].names[9] = "get_user_info"

\* the groups that answer the name
Claiming(name) == {i \in 1..Len(tools) : name \in GroupTools(tools[i])}

\* the call ended in "Unknown tool: <name>"
EndedUnknownTool(t) ==
    /\ Done(t) /\ outcome[t].kind = "raise"
    /\ outcome[t].text = <<"Unknown tool: ", call[t].tool>>

\* C30: the catalog and the dispatcher of each adapter agree: a name of the
\* catalog is answered by exactly one handler and its dispatch never ends in
\* "Unknown tool"; a name a handler answers is in the catalog; a tool call
\* changes neither the catalog nor the registered groups.
C30_CatalogMatchesDispatch ==
    /\ tools = (IF auth.constructed THEN Groups ELSE <<>>)
    /\ \A name \in Range(get_all_tool_definitions) : Cardinality(Claiming(name)) = 1
    /\ \A i \in 1..Len(tools) : GroupTools(tools[i]) \subseteq Range(get_all_tool_definitions)
    /\ Range(list_tools) = PhotosTools
    /\ \A t \in Tasks :
        /\ (call[t].adapter = "discord" /\ call[t].tool \in Range(get_all_tool_definitions))
              => ~EndedUnknownTool(t)
        /\ (call[t].adapter = "photos" /\ call[t].tool \in Range(list_tools))
              => ~EndedUnknownTool(t)
        /\ (call[t].adapter \in {"discord", "photos"} /\ Done(t) /\ ~EndedUnknownTool(t))
              => call[t].tool \in Range(get_all_tool_definitions) \cup Range(list_tools)
        /\ (CatalogListed(t) /\ call[t].adapter = "discord_catalog")
              => result[t].names = get_tool_definitions("server")
                    \o get_tool_definitions("messages") \o get_tool_definitions("channels")
                    \o get_tool_definitions("users")
        /\ (CatalogListed(t) /\ call[t].adapter = "photos_catalog")
              => result[t].names = list_tools

\* get_user_info, a name of the catalog, was answered by the fourth group
\* after the three before it had passed
C30_Witness ==
    \E t \in Tasks :
        /\ Done(t) /\ call[t].adapter = "discord" /\ call[t].tool = "get_user_info"
        /\ invoked[t] = Groups
        /\ outcome[t].kind = "return"

\* C22: when the service client is built and any of refresh token, client id
\* and client secret is missing, the call fails with a "missing credentials"
\* error that names every missing field, and no upstream request is issued.
C22_MissingCredentialsNamed ==
    \A t \in Tasks :
        (call[t].adapter = "photos_picker" /\ call[t].env_missing /= {}) =>
        /\ events[t] = <<>>
        /\ Done(t) =>
              /\ outcome[t].kind = "raise"
              /\ call[t].env_missing \subseteq Range(outcome[t].text)

\* format_picker_media_item returned the item of task t
Formatted(t) ==
    Done(t) /\ call[t].adapter = "function" /\ call[t].tool = "format_picker_media_item"

\* C25, as the claim states it: the formatted item never holds both
\* photoMetadata and videoMetadata; it holds photoMetadata exactly when the
\* upstream item carries a photoMetadata block, and videoMetadata exactly when
\* the upstream item carries a videoMetadata block.
C25_EachBlockWhenCarried ==
    \A t \in Tasks : Formatted(t) =>
        /\ ~(MetadataBlocks \subseteq result[t].keys)
        /\ ("photoMetadata" \in result[t].keys) <=> ("photoMetadata" \in call[t].keys)
        /\ ("videoMetadata" \in result[t].keys) <=> ("videoMetadata" \in call[t].keys)

\* C25, amended: the formatted item never holds both photoMetadata and
\* videoMetadata; it holds photoMetadata exactly when the upstream item carries
\* a photoMetadata block, and videoMetadata exactly when the upstream item
\* carries a videoMetadata block and no photoMetadata block.
C25_OneBlockPhotoFirst ==
    \A t \in Tasks : Formatted(t) =>
        /\ ~(MetadataBlocks \subseteq result[t].keys)
        /\ ("photoMetadata" \in result[t].keys) <=> ("photoMetadata" \in call[t].keys)
        /\ ("videoMetadata" \in result[t].keys) <=>
               ("videoMetadata" \in call[t].keys /\ "photoMetadata" \notin call[t].keys)

\* an item that carries both blocks was formatted with photoMetadata alone
C25_Witness ==
    \E t \in Tasks :
        /\ Formatted(t)
        /\ MetadataBlocks \subseteq call[t].keys
        /\ "photoMetadata" \in result[t].keys /\ "videoMetadata" \notin result[t].keys

====
